---- MODULE Spec2Model ----
(***************************************************************************)
(* State-machine model of the aqua-swap program: the three instruction     *)
(* handlers create / swap / close, the SwapState record they read and      *)
(* write, and the checked u128 arithmetic of swap.rs.                      *)
(*                                                                         *)
(* u64 and u128 values that take part in the program's arithmetic are      *)
(* unsigned integers written as little-endian sequences of base-1000 limbs *)
(* (three decimal digits each) without a most-significant zero limb (zero  *)
(* is << >>, 1234567 is <<567, 234, 1>>), so that the products of swap.rs  *)
(* are computed at their real width (up to 2^128 and beyond) and the       *)
(* checked_* operations overflow exactly where the code's do.              *)
(***************************************************************************)
EXTENDS Integers, Sequences, FiniteSets, TLC

(***************************************************************************)
(* Unsigned integer arithmetic on limb sequences.                          *)
(***************************************************************************)

RECURSIVE N(_)
\* The limb sequence of the natural number n.
N(n) == IF n = 0 THEN << >> ELSE <<n % 1000>> \o N(n \div 1000)

RECURSIVE ToNat(_)
\* The natural number of a limb sequence (used only on values known small).
ToNat(a) == IF a = << >> THEN 0 ELSE Head(a) + 1000 * ToNat(Tail(a))

RECURSIVE Norm(_)
\* Drop most-significant zero limbs.
Norm(a) ==
    IF a = << >> THEN << >>
    ELSE IF a[Len(a)] = 0 THEN Norm(SubSeq(a, 1, Len(a) - 1))
    ELSE a

Digit(a, i) == IF i <= Len(a) THEN a[i] ELSE 0

Lt(a, b) ==
    \/ Len(a) < Len(b)
    \/ /\ Len(a) = Len(b)
       /\ \E i \in 1..Len(a) :
            /\ a[i] < b[i]
            /\ \A j \in (i + 1)..Len(a) : a[j] = b[j]

Leq(a, b) == ~Lt(b, a)

RECURSIVE AddC(_, _, _, _)
AddC(a, b, i, c) ==
    IF i > Len(a) /\ i > Len(b)
    THEN (IF c = 0 THEN << >> ELSE <<c>>)
    ELSE LET s == Digit(a, i) + Digit(b, i) + c
         IN  <<s % 1000>> \o AddC(a, b, i + 1, s \div 1000)

Add(a, b) == AddC(a, b, 1, 0)

RECURSIVE SubC(_, _, _, _)
SubC(a, b, i, c) ==
    IF i > Len(a) THEN << >>
    ELSE LET s == Digit(a, i) - Digit(b, i) - c
         IN  <<(s + 1000) % 1000>> \o SubC(a, b, i + 1, IF s < 0 THEN 1 ELSE 0)

\* a - b, for b <= a.
Sub(a, b) == Norm(SubC(a, b, 1, 0))

RECURSIVE MulDigitC(_, _, _, _)
MulDigitC(a, d, i, c) ==
    IF i > Len(a)
    THEN (IF c = 0 THEN << >> ELSE <<c>>)
    ELSE LET s == a[i] * d + c
         IN  <<s % 1000>> \o MulDigitC(a, d, i + 1, s \div 1000)

\* a * d for one limb d.
MulDigit(a, d) == IF d = 0 THEN << >> ELSE MulDigitC(a, d, 1, 0)

RECURSIVE ColumnSum(_, _, _, _)
\* The sum of the limb products a[i] * b[k + 1 - i] of column k, from i up.
ColumnSum(a, b, k, i) ==
    IF i > Len(a) \/ i > k THEN 0
    ELSE a[i] * b[k + 1 - i] + ColumnSum(a, b, k, i + 1)

RECURSIVE MulC(_, _, _, _)
\* Schoolbook multiplication, column by column with the carry c.
MulC(a, b, k, c) ==
    IF k > Len(a) + Len(b) THEN << >>
    ELSE LET first == IF k > Len(b) THEN k + 1 - Len(b) ELSE 1
             s == ColumnSum(a, b, k, first) + c
         IN  <<s % 1000>> \o MulC(a, b, k + 1, s \div 1000)

Mul(a, b) == Norm(MulC(a, b, 1, 0))

\* 10^n.
Pow10(n) ==
    [i \in 1..(n \div 3 + 1) |->
        IF i <= n \div 3 THEN 0
        ELSE IF n % 3 = 0 THEN 1 ELSE IF n % 3 = 1 THEN 10 ELSE 100]

\* The largest limb d with b * d <= r, for 0 < b and r < 1000 * b.  The two
\* leading limbs of b and the limbs of r above them bracket d within a few
\* candidates, and the exact comparison picks it.
QuotDigit(r, b) ==
    IF Lt(r, b) THEN 0
    ELSE IF Len(b) = 1 THEN ToNat(r) \div b[1]
    ELSE LET n  == Len(b)
             bt == b[n] * 1000 + b[n - 1]
             rt == r[n - 1] + 1000 * r[n] + 1000000 * Digit(r, n + 1)
             lo == rt \div (bt + 1)
             hi == IF rt \div bt > 999 THEN 999 ELSE rt \div bt
         IN  CHOOSE d \in lo..hi :
                /\ Leq(MulDigit(b, d), r)
                /\ (d = hi \/ Lt(r, MulDigit(b, d + 1)))

RECURSIVE DivFrom(_, _, _, _)
\* Long division: the limbs a[i], a[i-1], ..., a[1] are brought down onto
\* the running remainder r; the quotient limbs come out most significant
\* first.
DivFrom(a, b, i, r) ==
    IF i = 0 THEN << >>
    ELSE LET r1 == Norm(<<a[i]>> \o r)
             d  == QuotDigit(r1, b)
         IN  <<d>> \o DivFrom(a, b, i - 1, Sub(r1, MulDigit(b, d)))

Reverse(s) == [i \in 1..Len(s) |-> s[Len(s) + 1 - i]]

\* floor(a / b), for b # 0.
Div(a, b) == Norm(Reverse(DivFrom(a, b, Len(a), << >>)))

(***************************************************************************)
(* Program constants and the checked operations of Rust's u64 / u128.      *)
(***************************************************************************)

\* u64::MAX = 2^64 - 1 = 18446744073709551615.
U64_MAX ==
    <<615, 551, 709, 73, 744, 446, 18>>

\* u128::MAX = 2^128 - 1 = 340282366920938463463374607431768211455.
U128_MAX ==
    <<455, 211, 768, 431, 607, 374, 463, 463, 938, 920, 366, 282, 340>>

\* let b: u128 = 1_000_000_000u128 (the fixed price scale).
B == N(1000000000)

\* let denominator = 100_000_000_000u128 (100 percent, scaled by 1e9).
denominator == Pow10(11)

\* Option / Result values.
Some(v) == [ok |-> TRUE, v |-> v]
None == [ok |-> FALSE]
Ok(v) == [ok |-> TRUE, v |-> v]
Err(e) == [ok |-> FALSE, err |-> e]

\* u128::checked_mul: None when the product exceeds u128::MAX.
checked_mul(x, y) ==
    LET p == Mul(x, y) IN IF Leq(p, U128_MAX) THEN Some(p) ELSE None

\* 10u128.checked_pow(exp): None when 10^exp exceeds u128::MAX.
checked_pow10(exp) ==
    LET p == Pow10(exp) IN IF Leq(p, U128_MAX) THEN Some(p) ELSE None

\* u128::checked_div: None when the divisor is zero.
checked_div(x, y) == IF y = << >> THEN None ELSE Some(Div(x, y))

\* u64::checked_sub: None when the difference would be negative.
checked_sub(x, y) == IF Lt(x, y) THEN None ELSE Some(Sub(x, y))

(***************************************************************************)
(* The arithmetic helpers of swap.rs.                                      *)
(***************************************************************************)

\* compute_base_units with the division done before the multiplication by
\* the price scale (the precision loss the multiply-first order avoids).
compute_base_units_div_first(quote_units, price_scaled, base_decimals, quote_decimals) ==
    IF price_scaled = << >> \/ base_decimals > 38 \/ quote_decimals > 38
    THEN Err("InvalidParameters")
    ELSE
    LET num0 == checked_mul(quote_units, Pow10(base_decimals))
        den  == checked_mul(price_scaled, Pow10(quote_decimals)) IN
    IF ~num0.ok \/ ~den.ok THEN Err("InvalidParameters")
    ELSE
    LET units == checked_mul(Div(num0.v, den.v), B) IN
    IF ~units.ok \/ units.v = << >> \/ Lt(U64_MAX, units.v)
    THEN Err("InvalidParameters")
    ELSE Ok(units.v)

\* compute_base_units without the range check on the quotient: a zero or an
\* oversize quotient is handed back, the latter clamped to u64::MAX.
compute_base_units_unchecked(quote_units, price_scaled, base_decimals, quote_decimals) ==
    IF price_scaled = << >> \/ base_decimals > 38 \/ quote_decimals > 38
    THEN Err("InvalidParameters")
    ELSE
    LET num0 == checked_mul(quote_units, Pow10(base_decimals))
        den  == checked_mul(price_scaled, Pow10(quote_decimals)) IN
    IF ~num0.ok \/ ~den.ok THEN Err("InvalidParameters")
    ELSE
    LET num == checked_mul(num0.v, B) IN
    IF ~num.ok THEN Err("InvalidParameters")
    ELSE LET units == Div(num.v, den.v)
         IN  Ok(IF Lt(U64_MAX, units) THEN U64_MAX ELSE units)

\* compute_base_units rounding the quotient up instead of down.
compute_base_units_round_up(quote_units, price_scaled, base_decimals, quote_decimals) ==
    IF price_scaled = << >> \/ base_decimals > 38 \/ quote_decimals > 38
    THEN Err("InvalidParameters")
    ELSE
    LET num0 == checked_mul(quote_units, Pow10(base_decimals))
        den  == checked_mul(price_scaled, Pow10(quote_decimals)) IN
    IF ~num0.ok \/ ~den.ok THEN Err("InvalidParameters")
    ELSE
    LET num == checked_mul(num0.v, B) IN
    IF ~num.ok THEN Err("InvalidParameters")
    ELSE LET units == Div(Add(num.v, Sub(den.v, N(1))), den.v)
         IN  IF units = << >> \/ Lt(U64_MAX, units)
             THEN Err("InvalidParameters")
             ELSE Ok(units)

compute_base_units(quote_units, price_scaled, base_decimals, quote_decimals) ==
    IF price_scaled = << >> THEN Err("InvalidParameters")
    ELSE
    LET base_scale == checked_pow10(base_decimals) IN
    IF ~base_scale.ok THEN Err("InvalidParameters")
    ELSE
    LET quote_scale == checked_pow10(quote_decimals) IN
    IF ~quote_scale.ok THEN Err("InvalidParameters")
    ELSE
    LET num0 == checked_mul(quote_units, base_scale.v) IN
    IF ~num0.ok THEN Err("InvalidParameters")
    ELSE
    LET num == checked_mul(num0.v, B) IN
    IF ~num.ok THEN Err("InvalidParameters")
    ELSE
    LET den == checked_mul(price_scaled, quote_scale.v) IN
    IF ~den.ok THEN Err("InvalidParameters")
    ELSE
    LET units == checked_div(num.v, den.v) IN
    IF ~units.ok THEN Err("InvalidParameters")
    ELSE IF units.v = << >> \/ Lt(U64_MAX, units.v) THEN Err("InvalidParameters")
    ELSE Ok(units.v)

calculate_base_bonus(bonus_percentage, base_out) ==
    IF bonus_percentage = << >> THEN Ok(<< >>)
    ELSE
    LET numerator == checked_mul(base_out, bonus_percentage) IN
    IF ~numerator.ok THEN Err("InvalidParameters")
    ELSE
    LET bonus_amount == checked_div(numerator.v, denominator) IN
    IF ~bonus_amount.ok THEN Err("InvalidParameters")
    ELSE IF Lt(U64_MAX, bonus_amount.v) THEN Err("InvalidParameters")
    ELSE Ok(bonus_amount.v)

\* calculate_quote_bonus saturating at u64::MAX instead of failing.
calculate_quote_bonus_clamped(bonus_percentage, quote_in) ==
    IF bonus_percentage = << >> THEN Ok(<< >>)
    ELSE LET bonus_amount == Div(Mul(quote_in, bonus_percentage), denominator)
         IN  Ok(IF Lt(U64_MAX, bonus_amount) THEN U64_MAX ELSE bonus_amount)

calculate_quote_bonus(bonus_percentage, quote_in) ==
    IF bonus_percentage = << >> THEN Ok(<< >>)
    ELSE
    LET numerator == checked_mul(quote_in, bonus_percentage) IN
    IF ~numerator.ok THEN Err("InvalidParameters")
    ELSE
    LET bonus_amount == checked_div(numerator.v, denominator) IN
    IF ~bonus_amount.ok THEN Err("InvalidParameters")
    ELSE IF Lt(U64_MAX, bonus_amount.v) THEN Err("InvalidParameters")
    ELSE Ok(bonus_amount.v)

\* The arithmetic block of swap with a saturating subtraction: a quote bonus
\* above quote_in leaves 0 for the vault instead of failing.
swap_amounts_saturating_sub(quote_in, price, bonus_quote, base_decimals, quote_decimals, bonus_applies) ==
    LET base_out == compute_base_units(quote_in, price, base_decimals,
                                       quote_decimals) IN
    IF ~base_out.ok THEN base_out
    ELSE
    LET quote_in_bonus ==
            IF bonus_quote # << >> /\ bonus_applies
            THEN calculate_quote_bonus(bonus_quote, quote_in)
            ELSE Ok(<< >>) IN
    IF ~quote_in_bonus.ok THEN quote_in_bonus
    ELSE
    LET quote_in_vault == checked_sub(quote_in, quote_in_bonus.v) IN
    Ok([base_out |-> base_out.v,
        quote_in_bonus |-> quote_in_bonus.v,
        quote_in_vault |-> IF quote_in_vault.ok THEN quote_in_vault.v
                           ELSE << >>])

\* The arithmetic block of swap with base_out computed from what is left of
\* quote_in after the quote bonus.
swap_amounts_base_from_net(quote_in, price, bonus_quote, base_decimals, quote_decimals, bonus_applies) ==
    LET quote_in_bonus ==
            IF bonus_quote # << >> /\ bonus_applies
            THEN calculate_quote_bonus(bonus_quote, quote_in)
            ELSE Ok(<< >>) IN
    IF ~quote_in_bonus.ok THEN quote_in_bonus
    ELSE
    LET quote_in_vault == checked_sub(quote_in, quote_in_bonus.v) IN
    IF ~quote_in_vault.ok THEN Err("InvalidParameters")
    ELSE
    LET base_out == compute_base_units(quote_in_vault.v, price, base_decimals,
                                       quote_decimals) IN
    IF ~base_out.ok THEN base_out
    ELSE Ok([base_out |-> base_out.v,
             quote_in_bonus |-> quote_in_bonus.v,
             quote_in_vault |-> quote_in_vault.v])

\* The arithmetic block of swap (swap.rs 134-146): base_out from the full
\* quote_in, the quote bonus when one applies, and the amount left for the
\* vault.  bonus_applies is *bonus_quote_acc.key() != *user_quote_acc.key().
swap_amounts(quote_in, price, bonus_quote, base_decimals, quote_decimals, bonus_applies) ==
    LET base_out == compute_base_units(quote_in, price, base_decimals,
                                       quote_decimals) IN
    IF ~base_out.ok THEN base_out
    ELSE
    LET quote_in_bonus ==
            IF bonus_quote # << >> /\ bonus_applies
            THEN calculate_quote_bonus(bonus_quote, quote_in)
            ELSE Ok(<< >>) IN
    IF ~quote_in_bonus.ok THEN quote_in_bonus
    ELSE
    LET quote_in_vault == checked_sub(quote_in, quote_in_bonus.v) IN
    IF ~quote_in_vault.ok THEN Err("InvalidParameters")
    ELSE Ok([base_out |-> base_out.v,
             quote_in_bonus |-> quote_in_bonus.v,
             quote_in_vault |-> quote_in_vault.v])

(***************************************************************************)
(* Accounts.  Addresses are strings; the ledger holds, per address, the    *)
(* lamports, and for storage accounts the SwapState bytes, for token       *)
(* accounts the mint, the token authority and the amount.                  *)
(***************************************************************************)

\* The all-zero address (what data.fill(0) leaves in a Pubkey field).
ZERO_KEY == "11111111111111111111111111111111"

\* pinocchio_system::ID, pinocchio_token::ID, the ATA program, this program.
SYSTEM_PROGRAM == "system_program"
TOKEN_PROGRAM == "token_program"
ATA_PROGRAM == "ata_program"
PROGRAM_ID == "aqua_swap"

\* WSOL_MINT in create.rs and swap.rs (So111...112).
WSOL_MINT == "So11111111111111111111111111111111111111112"

\* Wallets (system accounts that can sign).
WalletKeys == {"maker", "taker", "ref", "mallory"}

\* Storage accounts: the derived address of (uuid 1, bump 255), and an account
\* of the same size owned and written by somebody else's program.
SwapKeys == {"pda", "fake_swap"}

\* Token accounts.
TokenKeys ==
    {"vaultB", "vaultB2", "makerB", "makerQ", "makerW", "takerB", "takerQ",
     "takerW", "refB", "refQ", "pdaQ", "ataW"}

\* Mints and their decimals.
MintKeys == {"mintB", "mintQ", WSOL_MINT}

Decimals(mint) == IF mint = "mintB" THEN 8 ELSE 9

AllKeys == WalletKeys \cup SwapKeys \cup TokenKeys

\* pinocchio_pubkey::derive_address(&[uuid.to_le_bytes(), [bump]], None, ID):
\* a hash, hence a different address for every (uuid, bump).
derive_address(uuid, bump) ==
    IF uuid = 1 /\ bump = 255 THEN "pda"
    ELSE IF uuid = 1 /\ bump = 254 THEN "pda_1_254"
    ELSE IF uuid = 2 /\ bump = 255 THEN "pda_2_255"
    ELSE "pda_other"

\* The associated token account of (wallet, mint), as the ATA program
\* derives it.
AssociatedTokenAddress(wallet, mint) ==
    IF wallet = "pda" /\ mint = WSOL_MINT THEN "ataW" ELSE "ata_other"

\* SwapState (state.rs 16-26) after data.fill(0).
ZeroState ==
    [owner |-> ZERO_KEY, base |-> ZERO_KEY, quote |-> ZERO_KEY, uuid |-> 0,
     price |-> << >>, bonus_base |-> << >>, bonus_quote |-> << >>,
     bump_seed |-> 0, quote_sol |-> FALSE]

\* A storage account without data, owned by the system program.
NoAccount == [program |-> SYSTEM_PROGRAM, allocated |-> FALSE, st |-> ZeroState]

\* A token account that does not exist (never created, or closed).
NoToken == [open |-> FALSE, mint |-> ZERO_KEY, owner |-> ZERO_KEY, amount |-> 0]

TokenOf(mint, owner, amount) ==
    [open |-> TRUE, mint |-> mint, owner |-> owner, amount |-> amount]

\* The state of a handler while it runs: Ok so far or the error it returned
\* and where, the accounts as it has changed them, and the CPIs it has issued.
Running(L) ==
    [ok |-> TRUE, err |-> "Ok", at |-> "", L |-> L, trace |-> << >>]

\* A check of the handler itself fails: return Err(e) from the handler.
Reject(o, e) == [o EXCEPT !.ok = FALSE, !.err = e, !.at = "handler"]

\* A called program fails: invoke(..)? returns its error.
Fail(o, e) == [o EXCEPT !.ok = FALSE, !.err = e, !.at = "cpi"]

Issue(o, ev) == [o EXCEPT !.trace = Append(@, ev)]

(***************************************************************************)
(* The programs the handlers call.                                         *)
(***************************************************************************)

IsTokenAccount(L, key) == key \in TokenKeys /\ L.tokens[key].open

\* TokenAccount::from_account_info: the account must hold token-account
\* data and belong to the token program.
TokenAccount_from_account_info(L, key) ==
    IF IsTokenAccount(L, key) THEN Ok(L.tokens[key])
    ELSE Err("InvalidAccountData")

\* Mint::from_account_info.
Mint_from_account_info(key) ==
    IF key \in MintKeys THEN Ok([decimals |-> Decimals(key)])
    ELSE Err("InvalidAccountData")

\* The token program's transfer.  expected is <<mint, decimals>> for
\* TransferChecked and << >> for Transfer.  The authority has to be a signer
\* of the CPI (a transaction signer or the address of the signer seeds).
process_transfer(o, cpi, from, to, authority, amount, expected, signers) ==
    IF ~o.ok THEN o
    ELSE
    LET L  == o.L
        o1 == Issue(o, [cpi |-> cpi, from |-> from, to |-> to,
                        amount |-> amount, authority |-> authority]) IN
    IF authority \notin signers THEN Fail(o1, "MissingRequiredSignature")
    ELSE IF ~IsTokenAccount(L, from) \/ ~IsTokenAccount(L, to)
    THEN Fail(o1, "InvalidAccountData")
    ELSE
    LET src == L.tokens[from]
        dst == L.tokens[to] IN
    IF Lt(N(src.amount), amount) THEN Fail(o1, "InsufficientFunds")
    ELSE IF src.mint # dst.mint THEN Fail(o1, "MintMismatch")
    ELSE IF expected # << >> /\ expected[1] # src.mint
    THEN Fail(o1, "MintMismatch")
    ELSE IF expected # << >> /\ expected[2] # Decimals(src.mint)
    THEN Fail(o1, "MintDecimalsMismatch")
    ELSE IF authority # src.owner THEN Fail(o1, "OwnerMismatch")
    ELSE IF from = to \/ amount = << >> THEN o1
    ELSE
    LET n == ToNat(amount)
        native == src.mint = WSOL_MINT IN
    [o1 EXCEPT
        !.L.tokens[from].amount = @ - n,
        !.L.tokens[to].amount = @ + n,
        !.L.lamports[from] = IF native THEN @ - n ELSE @,
        !.L.lamports[to] = IF native THEN @ + n ELSE @]

TransferChecked(o, from, mint, to, authority, amount, decimals, signers) ==
    process_transfer(o, "TransferChecked", from, to, authority, amount,
                     <<mint, decimals>>, signers)

Transfer(o, from, to, authority, amount, signers) ==
    process_transfer(o, "Transfer", from, to, authority, amount, << >>,
                     signers)

\* The token program's CloseAccount: a non-native account must be empty; all
\* lamports of the account go to the destination and the account is gone.
CloseAccount(o, account, destination, authority, signers) ==
    IF ~o.ok THEN o
    ELSE
    LET L  == o.L
        o1 == Issue(o, [cpi |-> "CloseAccount", from |-> account,
                        to |-> destination, amount |-> << >>,
                        authority |-> authority]) IN
    IF authority \notin signers THEN Fail(o1, "MissingRequiredSignature")
    ELSE IF ~IsTokenAccount(L, account) \/ destination \notin AllKeys
    THEN Fail(o1, "InvalidAccountData")
    ELSE IF account = destination THEN Fail(o1, "InvalidAccountData")
    ELSE IF L.tokens[account].mint # WSOL_MINT /\ L.tokens[account].amount # 0
    THEN Fail(o1, "NonNativeHasBalance")
    ELSE IF authority # L.tokens[account].owner THEN Fail(o1, "OwnerMismatch")
    ELSE
    [o1 EXCEPT
        !.L.lamports[destination] = @ + L.lamports[account],
        !.L.lamports[account] = 0,
        !.L.tokens[account] = NoToken]

\* The system program's CreateAccount: both accounts sign, the new address
\* must be unused, the payer funds it, and it is handed to the new owner.
CreateAccount(o, from, to, lamports, program, signers) ==
    IF ~o.ok THEN o
    ELSE
    LET L  == o.L
        o1 == Issue(o, [cpi |-> "CreateAccount", from |-> from, to |-> to,
                        amount |-> N(lamports), authority |-> from]) IN
    IF from \notin signers \/ to \notin signers
    THEN Fail(o1, "MissingRequiredSignature")
    ELSE IF to \notin SwapKeys \/ from \notin WalletKeys
    THEN Fail(o1, "InvalidArgument")
    ELSE IF L.lamports[to] > 0 \/ L.swap_data[to] # NoAccount
    THEN Fail(o1, "AccountAlreadyInUse")
    ELSE IF L.lamports[from] < lamports THEN Fail(o1, "InsufficientLamports")
    ELSE
    [o1 EXCEPT
        !.L.lamports[from] = @ - lamports,
        !.L.lamports[to] = @ + lamports,
        !.L.swap_data[to] =
            [program |-> program, allocated |-> TRUE, st |-> ZeroState]]

\* The system program's Transfer of lamports between a signing wallet and
\* any account.
SystemTransfer(o, from, to, lamports, signers) ==
    IF ~o.ok THEN o
    ELSE
    LET L  == o.L
        o1 == Issue(o, [cpi |-> "SystemTransfer", from |-> from, to |-> to,
                        amount |-> lamports, authority |-> from]) IN
    IF from \notin signers THEN Fail(o1, "MissingRequiredSignature")
    ELSE IF from \notin WalletKeys \/ to \notin AllKeys
    THEN Fail(o1, "InvalidArgument")
    ELSE IF Lt(N(L.lamports[from]), lamports)
    THEN Fail(o1, "InsufficientLamports")
    ELSE IF from = to THEN o1
    ELSE
    [o1 EXCEPT
        !.L.lamports[from] = @ - ToNat(lamports),
        !.L.lamports[to] = @ + ToNat(lamports)]

\* Rent::minimum_balance of a SwapState and of a token account, in lamports.
RentSwapState == 2

RentTokenAccount == 1

\* The ATA program's Create / CreateIdempotent: the account must be the
\* associated address of (wallet, mint); an existing one is accepted only
\* by CreateIdempotent; otherwise the funding account pays its rent.
CreateAta(o, cpi, funding_account, account, wallet, mint, signers) ==
    IF ~o.ok THEN o
    ELSE
    LET L  == o.L
        o1 == Issue(o, [cpi |-> cpi, from |-> funding_account,
                        to |-> account, amount |-> N(RentTokenAccount),
                        authority |-> funding_account]) IN
    IF funding_account \notin signers
    THEN Fail(o1, "MissingRequiredSignature")
    ELSE IF account # AssociatedTokenAddress(wallet, mint)
    THEN Fail(o1, "InvalidSeeds")
    ELSE IF mint \notin MintKeys THEN Fail(o1, "InvalidAccountData")
    ELSE IF IsTokenAccount(L, account)
    THEN IF /\ cpi = "CreateIdempotent"
            /\ L.tokens[account].owner = wallet
            /\ L.tokens[account].mint = mint
         THEN o1
         ELSE Fail(o1, "IllegalOwner")
    ELSE IF funding_account \notin WalletKeys
    THEN Fail(o1, "InvalidArgument")
    ELSE IF L.lamports[funding_account] < RentTokenAccount
    THEN Fail(o1, "InsufficientLamports")
    ELSE
    [o1 EXCEPT
        !.L.lamports[funding_account] = @ - RentTokenAccount,
        !.L.lamports[account] = @ + RentTokenAccount,
        !.L.tokens[account] = TokenOf(mint, wallet, 0)]

(***************************************************************************)
(* states/state.rs and states/utils.rs.                                    *)
(***************************************************************************)

\* load_ix_data::<T>(data): the payload must have exactly T::LEN bytes.
load_ix_data(c) ==
    IF c.data_len_ok THEN Ok(c) ELSE Err("InvalidInstructionData")

\* The account's data has exactly SwapState::LEN bytes.
HasSwapStateLen(L, key) == key \in SwapKeys /\ L.swap_data[key].allocated

\* A data_is_empty() that answers TRUE for every account.
data_is_empty_always(L, key) == TRUE

\* swap_acc.data_is_empty().
data_is_empty(L, key) == ~HasSwapStateLen(L, key)

\* load_acc_unchecked::<SwapState>(data): the data must have exactly
\* SwapState::LEN bytes; the bytes are then read as a SwapState.
load_acc_unchecked(L, key) ==
    IF ~HasSwapStateLen(L, key) THEN Err("InvalidAccountData")
    ELSE Ok(L.swap_data[key].st)

\* A validate_pda that derives the address from the id and the canonical
\* bump 255, whatever bump was supplied.
validate_pda_any_bump(bump_seed, uuid, pda) ==
    IF derive_address(uuid, 255) # pda THEN Err("InvalidPDA")
    ELSE Ok(TRUE)

\* SwapState::validate_pda.
validate_pda(bump_seed, uuid, pda) ==
    IF derive_address(uuid, bump_seed) # pda THEN Err("InvalidPDA")
    ELSE Ok(TRUE)

\* A create_swap that stores the quote account's address also for a native
\* quote.
create_swap_quote_account_always(o, swap_acc, owner_acc, base_acc, quote_acc, create_data, quote_sol, quote_owner) ==
    IF ~o.ok THEN o
    ELSE IF ~HasSwapStateLen(o.L, swap_acc)
    THEN Reject(o, "InvalidAccountData")
    ELSE
    [o EXCEPT !.L.swap_data[swap_acc].st =
        [price |-> create_data.price,
         bonus_base |-> create_data.bonus_base,
         bonus_quote |-> create_data.bonus_quote,
         uuid |-> create_data.uuid,
         bump_seed |-> create_data.bump_seed,
         owner |-> owner_acc,
         base |-> base_acc,
         quote |-> quote_acc,
         quote_sol |-> quote_sol]]

\* A create_swap that leaves the bump of the record at 0.
create_swap_without_bump(o, swap_acc, owner_acc, base_acc, quote_acc, create_data, quote_sol, quote_owner) ==
    IF ~o.ok THEN o
    ELSE IF ~HasSwapStateLen(o.L, swap_acc)
    THEN Reject(o, "InvalidAccountData")
    ELSE
    [o EXCEPT !.L.swap_data[swap_acc].st =
        [price |-> create_data.price,
         bonus_base |-> create_data.bonus_base,
         bonus_quote |-> create_data.bonus_quote,
         uuid |-> create_data.uuid,
         bump_seed |-> 0,
         owner |-> owner_acc,
         base |-> base_acc,
         quote |-> IF quote_sol THEN quote_owner ELSE quote_acc,
         quote_sol |-> quote_sol]]

\* SwapState::create_swap: the nine fields of the new record.
create_swap(o, swap_acc, owner_acc, base_acc, quote_acc, create_data, quote_sol, quote_owner) ==
    IF ~o.ok THEN o
    ELSE IF ~HasSwapStateLen(o.L, swap_acc)
    THEN Reject(o, "InvalidAccountData")
    ELSE
    [o EXCEPT !.L.swap_data[swap_acc].st =
        [price |-> create_data.price,
         bonus_base |-> create_data.bonus_base,
         bonus_quote |-> create_data.bonus_quote,
         uuid |-> create_data.uuid,
         bump_seed |-> create_data.bump_seed,
         owner |-> owner_acc,
         base |-> base_acc,
         quote |-> IF quote_sol THEN quote_owner ELSE quote_acc,
         quote_sol |-> quote_sol]]

\* The address a Signer made of [uuid.to_le_bytes(), [bump_seed]] signs for.
SignerSeeds(uuid, bump_seed) == {derive_address(uuid, bump_seed)}

(***************************************************************************)
(* instructions/create.rs                                                  *)
(***************************************************************************)

\* The checks of create on the decoded token accounts and the price
\* (create.rs 69-83) with the price check left out.
create_checks_any_price(c, base_token, quote_token) ==
    IF base_token.mint = quote_token.mint THEN "SameMint"
    ELSE IF base_token.owner # c.swap_acc THEN "WrongOwnerBase"
    ELSE IF quote_token.owner = c.swap_acc THEN "WrongOwnerQuote"
    ELSE "Ok"

\* The checks of create on the decoded token accounts and the price
\* (create.rs 69-83): the error of the first one that fails, or "Ok".
create_checks(c, base_token, quote_token) ==
    IF base_token.mint = quote_token.mint THEN "SameMint"
    ELSE IF base_token.owner # c.swap_acc THEN "WrongOwnerBase"
    ELSE IF quote_token.owner = c.swap_acc THEN "WrongOwnerQuote"
    ELSE IF c.price = << >> THEN "InvalidParameters"
    ELSE "Ok"

create(L, c) ==
    LET o == Running(L) IN
    IF ~load_ix_data(c).ok THEN Reject(o, "InvalidInstructionData")
    ELSE IF c.n_accounts # 7 THEN Reject(o, "NotEnoughAccountKeys")
    ELSE IF c.owner_acc \notin c.signers
    THEN Reject(o, "MissingRequiredSignature")
    ELSE IF ~validate_pda(c.bump_seed, c.uuid, c.swap_acc).ok
    THEN Reject(o, "InvalidPDA")
    ELSE IF ~data_is_empty(L, c.swap_acc)
    THEN Reject(o, "AccountAlreadyInitialized")
    ELSE
    LET base_token == TokenAccount_from_account_info(L, c.base_acc) IN
    IF ~base_token.ok THEN Reject(o, base_token.err)
    ELSE
    LET quote_token == TokenAccount_from_account_info(L, c.quote_acc) IN
    IF ~quote_token.ok THEN Reject(o, quote_token.err)
    ELSE
    LET checked == create_checks(c, base_token.v, quote_token.v) IN
    IF checked # "Ok" THEN Reject(o, checked)
    ELSE
    LET quote_sol   == quote_token.v.mint = WSOL_MINT
        quote_owner == quote_token.v.owner
        signers     == c.signers \cup SignerSeeds(c.uuid, c.bump_seed) IN
    IF c.rent_acc # "rent" THEN Reject(o, "InvalidArgument")
    ELSE
    create_swap(
        CreateAccount(o, c.owner_acc, c.swap_acc, RentSwapState, PROGRAM_ID,
                      signers),
        c.swap_acc, c.owner_acc, c.base_acc, c.quote_acc, c, quote_sol,
        quote_owner)

(***************************************************************************)
(* instructions/close.rs                                                   *)
(***************************************************************************)

\* close without the comparison of the caller with the record's owner.
close_by_any_signer(L, c) ==
    LET o == Running(L) IN
    IF c.n_accounts # 5 THEN Reject(o, "NotEnoughAccountKeys")
    ELSE IF c.owner_acc \notin c.signers
    THEN Reject(o, "MissingRequiredSignature")
    ELSE
    LET swap_state == load_acc_unchecked(L, c.swap_acc) IN
    IF ~swap_state.ok THEN Reject(o, swap_state.err)
    ELSE IF swap_state.v.base # c.vault_base_acc
    THEN Reject(o, "WrongVaultBase")
    ELSE
    LET vault_base_token == TokenAccount_from_account_info(L, c.vault_base_acc)
    IN
    IF ~vault_base_token.ok THEN Reject(o, vault_base_token.err)
    ELSE
    LET owner_base_token == TokenAccount_from_account_info(L, c.owner_base_acc)
    IN
    IF ~owner_base_token.ok THEN Reject(o, owner_base_token.err)
    ELSE IF vault_base_token.v.mint # owner_base_token.v.mint
    THEN Reject(o, "WrongMintBase")
    ELSE IF vault_base_token.v.owner # c.swap_acc
    THEN Reject(o, "WrongOwnerBase")
    ELSE
    LET transfer_amount == vault_base_token.v.amount
        signers == c.signers
                       \cup SignerSeeds(swap_state.v.uuid,
                                        swap_state.v.bump_seed)
        o1 == IF transfer_amount > 0
              THEN Transfer(o, c.vault_base_acc, c.owner_base_acc, c.swap_acc,
                            N(transfer_amount), signers)
              ELSE o
        o2 == CloseAccount(o1, c.vault_base_acc, c.owner_acc, c.swap_acc,
                           signers) IN
    IF ~o2.ok THEN o2
    ELSE
    LET swap_lamports == o2.L.lamports[c.swap_acc] IN
    [o2 EXCEPT
        !.L.lamports[c.swap_acc] = @ - swap_lamports,
        !.L.lamports[c.owner_acc] = @ + swap_lamports,
        !.L.swap_data[c.swap_acc].st = ZeroState]

\* close without the final clearing of the storage account's data.
close_without_clearing(L, c) ==
    LET o == Running(L) IN
    IF c.n_accounts # 5 THEN Reject(o, "NotEnoughAccountKeys")
    ELSE IF c.owner_acc \notin c.signers
    THEN Reject(o, "MissingRequiredSignature")
    ELSE
    LET swap_state == load_acc_unchecked(L, c.swap_acc) IN
    IF ~swap_state.ok THEN Reject(o, swap_state.err)
    ELSE IF swap_state.v.owner # c.owner_acc THEN Reject(o, "NotOwner")
    ELSE IF swap_state.v.base # c.vault_base_acc
    THEN Reject(o, "WrongVaultBase")
    ELSE
    LET vault_base_token == TokenAccount_from_account_info(L, c.vault_base_acc)
    IN
    IF ~vault_base_token.ok THEN Reject(o, vault_base_token.err)
    ELSE
    LET owner_base_token == TokenAccount_from_account_info(L, c.owner_base_acc)
    IN
    IF ~owner_base_token.ok THEN Reject(o, owner_base_token.err)
    ELSE IF vault_base_token.v.mint # owner_base_token.v.mint
    THEN Reject(o, "WrongMintBase")
    ELSE IF vault_base_token.v.owner # c.swap_acc
    THEN Reject(o, "WrongOwnerBase")
    ELSE
    LET transfer_amount == vault_base_token.v.amount
        signers == c.signers
                       \cup SignerSeeds(swap_state.v.uuid,
                                        swap_state.v.bump_seed)
        o1 == IF transfer_amount > 0
              THEN Transfer(o, c.vault_base_acc, c.owner_base_acc, c.swap_acc,
                            N(transfer_amount), signers)
              ELSE o
        o2 == CloseAccount(o1, c.vault_base_acc, c.owner_acc, c.swap_acc,
                           signers) IN
    IF ~o2.ok THEN o2
    ELSE
    LET swap_lamports == o2.L.lamports[c.swap_acc] IN
    [o2 EXCEPT
        !.L.lamports[c.swap_acc] = @ - swap_lamports,
        !.L.lamports[c.owner_acc] = @ + swap_lamports]

\* close crediting the owner the storage account's lamports without taking
\* them from the storage account.
close_credit_without_debit(L, c) ==
    LET o == Running(L) IN
    IF c.n_accounts # 5 THEN Reject(o, "NotEnoughAccountKeys")
    ELSE IF c.owner_acc \notin c.signers
    THEN Reject(o, "MissingRequiredSignature")
    ELSE
    LET swap_state == load_acc_unchecked(L, c.swap_acc) IN
    IF ~swap_state.ok THEN Reject(o, swap_state.err)
    ELSE IF swap_state.v.owner # c.owner_acc THEN Reject(o, "NotOwner")
    ELSE IF swap_state.v.base # c.vault_base_acc
    THEN Reject(o, "WrongVaultBase")
    ELSE
    LET vault_base_token == TokenAccount_from_account_info(L, c.vault_base_acc)
    IN
    IF ~vault_base_token.ok THEN Reject(o, vault_base_token.err)
    ELSE
    LET owner_base_token == TokenAccount_from_account_info(L, c.owner_base_acc)
    IN
    IF ~owner_base_token.ok THEN Reject(o, owner_base_token.err)
    ELSE IF vault_base_token.v.mint # owner_base_token.v.mint
    THEN Reject(o, "WrongMintBase")
    ELSE IF vault_base_token.v.owner # c.swap_acc
    THEN Reject(o, "WrongOwnerBase")
    ELSE
    LET transfer_amount == vault_base_token.v.amount
        signers == c.signers
                       \cup SignerSeeds(swap_state.v.uuid,
                                        swap_state.v.bump_seed)
        o1 == IF transfer_amount > 0
              THEN Transfer(o, c.vault_base_acc, c.owner_base_acc, c.swap_acc,
                            N(transfer_amount), signers)
              ELSE o
        o2 == CloseAccount(o1, c.vault_base_acc, c.owner_acc, c.swap_acc,
                           signers) IN
    IF ~o2.ok THEN o2
    ELSE
    LET swap_lamports == o2.L.lamports[c.swap_acc] IN
    [o2 EXCEPT
        !.L.lamports[c.owner_acc] = @ + swap_lamports,
        !.L.swap_data[c.swap_acc].st = ZeroState]

close(L, c) ==
    LET o == Running(L) IN
    IF c.n_accounts # 5 THEN Reject(o, "NotEnoughAccountKeys")
    ELSE IF c.owner_acc \notin c.signers
    THEN Reject(o, "MissingRequiredSignature")
    ELSE
    LET swap_state == load_acc_unchecked(L, c.swap_acc) IN
    IF ~swap_state.ok THEN Reject(o, swap_state.err)
    ELSE IF swap_state.v.owner # c.owner_acc THEN Reject(o, "NotOwner")
    ELSE IF swap_state.v.base # c.vault_base_acc
    THEN Reject(o, "WrongVaultBase")
    ELSE
    LET vault_base_token == TokenAccount_from_account_info(L, c.vault_base_acc)
    IN
    IF ~vault_base_token.ok THEN Reject(o, vault_base_token.err)
    ELSE
    LET owner_base_token == TokenAccount_from_account_info(L, c.owner_base_acc)
    IN
    IF ~owner_base_token.ok THEN Reject(o, owner_base_token.err)
    ELSE IF vault_base_token.v.mint # owner_base_token.v.mint
    THEN Reject(o, "WrongMintBase")
    ELSE IF vault_base_token.v.owner # c.swap_acc
    THEN Reject(o, "WrongOwnerBase")
    ELSE
    LET transfer_amount == vault_base_token.v.amount
        signers == c.signers
                       \cup SignerSeeds(swap_state.v.uuid,
                                        swap_state.v.bump_seed)
        o1 == IF transfer_amount > 0
              THEN Transfer(o, c.vault_base_acc, c.owner_base_acc, c.swap_acc,
                            N(transfer_amount), signers)
              ELSE o
        o2 == CloseAccount(o1, c.vault_base_acc, c.owner_acc, c.swap_acc,
                           signers) IN
    IF ~o2.ok THEN o2
    ELSE
    LET swap_lamports == o2.L.lamports[c.swap_acc] IN
    [o2 EXCEPT
        !.L.lamports[c.swap_acc] = @ - swap_lamports,
        !.L.lamports[c.owner_acc] = @ + swap_lamports,
        !.L.swap_data[c.swap_acc].st = ZeroState]

(***************************************************************************)
(* instructions/swap.rs                                                    *)
(***************************************************************************)

\* The quote legs (swap.rs 158-210): the taker pays amount of the quote
\* asset to the account `to`; natively by way of the temporary WSOL account
\* of the position, which is created, filled, closed into the taker's wallet
\* and followed by a lamport transfer.
pay_quote(o, c, quote_sol, create_cpi, to, amount, quote_decimals, signers) ==
    IF quote_sol
    THEN SystemTransfer(
             CloseAccount(
                 TransferChecked(
                     CreateAta(o, create_cpi, c.user_acc, c.wsol_temp_acc,
                               c.swap_acc, c.quote_mint_acc, signers),
                     c.user_quote_acc, c.quote_mint_acc, c.wsol_temp_acc,
                     c.user_acc, amount, quote_decimals, c.signers),
                 c.wsol_temp_acc, c.user_acc, c.swap_acc, signers),
             c.user_acc, to, amount, c.signers)
    ELSE TransferChecked(o, c.user_quote_acc, c.quote_mint_acc, to,
                         c.user_acc, amount, quote_decimals, c.signers)

\* The base legs with the result of the base_out transfer dropped instead
\* of returned: a failed transfer moves nothing and the handler goes on.
pay_base_dropping_transfer_error(o, c, swap_state, base_out, base_decimals, signers) ==
    LET r  == TransferChecked(o, c.vault_base_acc, c.base_mint_acc,
                              c.user_base_acc, c.swap_acc, base_out,
                              base_decimals, signers)
        o1 == IF o.ok /\ ~r.ok THEN [o EXCEPT !.trace = r.trace] ELSE r IN
    IF ~o1.ok THEN o1
    ELSE IF swap_state.bonus_base = << >> \/ c.bonus_base_acc = c.user_base_acc
    THEN o1
    ELSE
    LET base_ata_bonus == TokenAccount_from_account_info(o1.L, c.bonus_base_acc)
    IN
    IF ~base_ata_bonus.ok THEN Reject(o1, base_ata_bonus.err)
    ELSE IF base_ata_bonus.v.mint # c.base_mint_acc
    THEN Reject(o1, "WrongMintBase")
    ELSE
    LET bonus_base_amount == calculate_base_bonus(swap_state.bonus_base, base_out)
    IN
    IF ~bonus_base_amount.ok THEN Reject(o1, bonus_base_amount.err)
    ELSE TransferChecked(o1, c.vault_base_acc, c.base_mint_acc,
                         c.bonus_base_acc, c.swap_acc, bonus_base_amount.v,
                         base_decimals, signers)

\* The base legs (swap.rs 270-302): base_out to the taker, then, when a base
\* bonus is configured and the recipient is not the taker's own account, the
\* recipient is decoded and checked, the bonus computed and transferred.
pay_base(o, c, swap_state, base_out, base_decimals, signers) ==
    LET o1 == TransferChecked(o, c.vault_base_acc, c.base_mint_acc,
                              c.user_base_acc, c.swap_acc, base_out,
                              base_decimals, signers) IN
    IF ~o1.ok THEN o1
    ELSE IF swap_state.bonus_base = << >> \/ c.bonus_base_acc = c.user_base_acc
    THEN o1
    ELSE
    LET base_ata_bonus == TokenAccount_from_account_info(o1.L, c.bonus_base_acc)
    IN
    IF ~base_ata_bonus.ok THEN Reject(o1, base_ata_bonus.err)
    ELSE IF base_ata_bonus.v.mint # c.base_mint_acc
    THEN Reject(o1, "WrongMintBase")
    ELSE
    LET bonus_base_amount == calculate_base_bonus(swap_state.bonus_base, base_out)
    IN
    IF ~bonus_base_amount.ok THEN Reject(o1, bonus_base_amount.err)
    ELSE TransferChecked(o1, c.vault_base_acc, c.base_mint_acc,
                         c.bonus_base_acc, c.swap_acc, bonus_base_amount.v,
                         base_decimals, signers)

\* The transfers of swap followed by fill bookkeeping: the filled position
\* is marked by a price of 0 in its record.
swap_transfers_bookkeeping(o, c, swap_state, amounts, base_decimals, quote_decimals) ==
    LET signers == c.signers
                       \cup SignerSeeds(swap_state.uuid, swap_state.bump_seed)
        o1 == pay_quote(o, c, swap_state.quote_sol, "CreateIdempotent",
                        c.vault_quote_acc, amounts.quote_in_vault,
                        quote_decimals, signers)
        o2 == IF amounts.quote_in_bonus # << >>
              THEN pay_quote(o1, c, swap_state.quote_sol, "Create",
                             c.bonus_quote_acc, amounts.quote_in_bonus,
                             quote_decimals, signers)
              ELSE o1
        o3 == pay_base(o2, c, swap_state, amounts.base_out, base_decimals,
                       signers) IN
    IF o3.ok THEN [o3 EXCEPT !.L.swap_data[c.swap_acc].st.price = << >>]
    ELSE o3

\* The transfers of swap with the base legs issued before the quote legs.
swap_transfers_base_first(o, c, swap_state, amounts, base_decimals, quote_decimals) ==
    LET signers == c.signers
                       \cup SignerSeeds(swap_state.uuid, swap_state.bump_seed)
        o1 == pay_base(o, c, swap_state, amounts.base_out, base_decimals,
                       signers)
        o2 == pay_quote(o1, c, swap_state.quote_sol, "CreateIdempotent",
                        c.vault_quote_acc, amounts.quote_in_vault,
                        quote_decimals, signers) IN
    IF amounts.quote_in_bonus # << >>
    THEN pay_quote(o2, c, swap_state.quote_sol, "Create", c.bonus_quote_acc,
                   amounts.quote_in_bonus, quote_decimals, signers)
    ELSE o2

\* The transfers of swap (swap.rs 148-302) once the amounts are known.
swap_transfers(o, c, swap_state, amounts, base_decimals, quote_decimals) ==
    LET signers == c.signers
                       \cup SignerSeeds(swap_state.uuid, swap_state.bump_seed)
        o1 == pay_quote(o, c, swap_state.quote_sol, "CreateIdempotent",
                        c.vault_quote_acc, amounts.quote_in_vault,
                        quote_decimals, signers)
        o2 == IF amounts.quote_in_bonus # << >>
              THEN pay_quote(o1, c, swap_state.quote_sol, "Create",
                             c.bonus_quote_acc, amounts.quote_in_bonus,
                             quote_decimals, signers)
              ELSE o1 IN
    pay_base(o2, c, swap_state, amounts.base_out, base_decimals, signers)

\* The account checks of swap accepting any base vault the position's
\* address has authority over, not just the one named in the record.
swap_checks_any_vault(L, c, swap_state, vault_base, user_base, user_quote) ==
    IF swap_state.quote # c.vault_quote_acc THEN "WrongVaultQuote"
    ELSE IF vault_base.owner # c.swap_acc THEN "WrongOwnerBase"
    ELSE IF vault_base.mint # user_base.mint THEN "WrongMintBase"
    ELSE IF vault_base.mint # c.base_mint_acc THEN "WrongMintBase"
    ELSE IF ~swap_state.quote_sol
    THEN LET vault_quote == TokenAccount_from_account_info(L, c.vault_quote_acc)
         IN  IF ~vault_quote.ok THEN vault_quote.err
             ELSE IF vault_quote.v.owner = c.swap_acc THEN "WrongOwnerQuote"
             ELSE IF vault_quote.v.mint # user_quote.mint THEN "WrongMintQuote"
             ELSE IF vault_quote.v.mint # c.quote_mint_acc
             THEN "WrongMintQuote"
             ELSE "Ok"
    ELSE IF c.quote_mint_acc # WSOL_MINT THEN "WrongMintQuote"
    ELSE "Ok"

\* The account checks of swap with the comparison of the quote account
\* against the record applied to token quotes only.
swap_checks_native_quote_unchecked(L, c, swap_state, vault_base, user_base, user_quote) ==
    IF swap_state.base # c.vault_base_acc THEN "WrongVaultBase"
    ELSE IF ~swap_state.quote_sol /\ swap_state.quote # c.vault_quote_acc
    THEN "WrongVaultQuote"
    ELSE IF vault_base.owner # c.swap_acc THEN "WrongOwnerBase"
    ELSE IF vault_base.mint # user_base.mint THEN "WrongMintBase"
    ELSE IF vault_base.mint # c.base_mint_acc THEN "WrongMintBase"
    ELSE IF ~swap_state.quote_sol
    THEN LET vault_quote == TokenAccount_from_account_info(L, c.vault_quote_acc)
         IN  IF ~vault_quote.ok THEN vault_quote.err
             ELSE IF vault_quote.v.owner = c.swap_acc THEN "WrongOwnerQuote"
             ELSE IF vault_quote.v.mint # user_quote.mint THEN "WrongMintQuote"
             ELSE IF vault_quote.v.mint # c.quote_mint_acc
             THEN "WrongMintQuote"
             ELSE "Ok"
    ELSE IF c.quote_mint_acc # WSOL_MINT THEN "WrongMintQuote"
    ELSE "Ok"

\* The account checks of swap (swap.rs 93-126): the error of the first one
\* that fails, or "Ok".
swap_checks(L, c, swap_state, vault_base, user_base, user_quote) ==
    IF swap_state.base # c.vault_base_acc THEN "WrongVaultBase"
    ELSE IF swap_state.quote # c.vault_quote_acc THEN "WrongVaultQuote"
    ELSE IF vault_base.owner # c.swap_acc THEN "WrongOwnerBase"
    ELSE IF vault_base.mint # user_base.mint THEN "WrongMintBase"
    ELSE IF vault_base.mint # c.base_mint_acc THEN "WrongMintBase"
    ELSE IF ~swap_state.quote_sol
    THEN LET vault_quote == TokenAccount_from_account_info(L, c.vault_quote_acc)
         IN  IF ~vault_quote.ok THEN vault_quote.err
             ELSE IF vault_quote.v.owner = c.swap_acc THEN "WrongOwnerQuote"
             ELSE IF vault_quote.v.mint # user_quote.mint THEN "WrongMintQuote"
             ELSE IF vault_quote.v.mint # c.quote_mint_acc
             THEN "WrongMintQuote"
             ELSE "Ok"
    ELSE IF c.quote_mint_acc # WSOL_MINT THEN "WrongMintQuote"
    ELSE "Ok"

\* The payload of swap read without the check of quote_in.
decode_swap_data_accepts_zero(c) ==
    IF ~c.data_len_ok THEN Err("InvalidInstructionData")
    ELSE Ok(c.quote_in)

\* The payload of swap (swap.rs 62-69): exactly SwapData::LEN bytes, read as
\* quote_in, which must not be 0.
decode_swap_data(c) ==
    IF ~c.data_len_ok THEN Err("InvalidInstructionData")
    ELSE IF c.quote_in = << >> THEN Err("InvalidInstructionData")
    ELSE Ok(c.quote_in)

swap(L, c) ==
    LET o == Running(L) IN
    IF c.n_accounts # 14 THEN Reject(o, "NotEnoughAccountKeys")
    ELSE IF c.user_acc \notin c.signers
    THEN Reject(o, "MissingRequiredSignature")
    ELSE IF ~decode_swap_data(c).ok THEN Reject(o, decode_swap_data(c).err)
    ELSE
    LET swap_state == load_acc_unchecked(L, c.swap_acc) IN
    IF ~swap_state.ok THEN Reject(o, swap_state.err)
    ELSE
    LET vault_base == TokenAccount_from_account_info(L, c.vault_base_acc) IN
    IF ~vault_base.ok THEN Reject(o, vault_base.err)
    ELSE
    LET user_base == TokenAccount_from_account_info(L, c.user_base_acc) IN
    IF ~user_base.ok THEN Reject(o, user_base.err)
    ELSE
    LET user_quote == TokenAccount_from_account_info(L, c.user_quote_acc) IN
    IF ~user_quote.ok THEN Reject(o, user_quote.err)
    ELSE
    LET base_mint == Mint_from_account_info(c.base_mint_acc) IN
    IF ~base_mint.ok THEN Reject(o, base_mint.err)
    ELSE
    LET quote_mint == IF ~swap_state.v.quote_sol
                      THEN Mint_from_account_info(c.quote_mint_acc)
                      ELSE Ok([decimals |-> 9]) IN
    IF ~quote_mint.ok THEN Reject(o, quote_mint.err)
    ELSE
    LET checked == swap_checks(L, c, swap_state.v, vault_base.v, user_base.v,
                               user_quote.v) IN
    IF checked # "Ok" THEN Reject(o, checked)
    ELSE
    LET amounts == swap_amounts(c.quote_in, swap_state.v.price,
                                swap_state.v.bonus_quote,
                                base_mint.v.decimals, quote_mint.v.decimals,
                                c.bonus_quote_acc # c.user_quote_acc) IN
    IF ~amounts.ok THEN Reject(o, amounts.err)
    ELSE swap_transfers(o, c, swap_state.v, amounts.v, base_mint.v.decimals,
                        quote_mint.v.decimals)

(***************************************************************************)
(* entrypoint.rs                                                           *)
(***************************************************************************)

\* process_instruction: the first byte selects the handler, whose result
\* is returned as it is.
process_instruction(L, c) ==
    IF c.disc = 0 THEN create(L, c)
    ELSE IF c.disc = 1 THEN swap(L, c)
    ELSE IF c.disc = 2 THEN close(L, c)
    ELSE Reject(Running(L), "InvalidInstructionData")

\* What is left of an instruction on the ledger: its effects when
\* process_instruction returned Ok, nothing when it returned an error.
Committed(L, o) == IF o.ok THEN o.L ELSE L

(***************************************************************************)
(* The ledger before any instruction of the program, and the instructions  *)
(* that are sent to it.                                                    *)
(***************************************************************************)

\* Token amounts the vaults and the taker start with.
InitVaultBase == 3

InitVaultBase2 == 1

InitTakerQuote == 2

\* The record somebody else's program wrote into its own account: the real
\* vault at a give-away price, payable to and closable by mallory.
FakeState ==
    [owner |-> "mallory", base |-> "vaultB", quote |-> "mallory", uuid |-> 1,
     price |-> N(1), bonus_base |-> << >>, bonus_quote |-> << >>,
     bump_seed |-> 255, quote_sol |-> TRUE]

InitTokens ==
    [k \in TokenKeys |->
        CASE k = "vaultB"  -> TokenOf("mintB", "pda", InitVaultBase)
          [] k = "vaultB2" -> TokenOf("mintB", "pda", InitVaultBase2)
          [] k = "makerB"  -> TokenOf("mintB", "maker", 0)
          [] k = "makerQ"  -> TokenOf("mintQ", "maker", 0)
          [] k = "makerW"  -> TokenOf(WSOL_MINT, "maker", 0)
          [] k = "takerB"  -> TokenOf("mintB", "taker", 0)
          [] k = "takerQ"  -> TokenOf("mintQ", "taker", InitTakerQuote)
          [] k = "takerW"  -> TokenOf(WSOL_MINT, "taker", InitTakerQuote)
          [] k = "refB"    -> TokenOf("mintB", "ref", 0)
          [] k = "refQ"    -> TokenOf("mintQ", "ref", 0)
          [] k = "pdaQ"    -> TokenOf("mintQ", "pda", 0)
          [] OTHER         -> NoToken]

InitLamports ==
    [k \in AllKeys |->
        CASE k = "maker"     -> RentSwapState
          [] k = "taker"     -> RentTokenAccount
          [] k = "fake_swap" -> RentSwapState
          [] k = "takerW"    -> RentTokenAccount + InitTakerQuote
          [] k \in TokenKeys \ {"ataW", "takerW"} -> RentTokenAccount
          [] OTHER           -> 0]

InitLedger ==
    [swap_data |->
        [k \in SwapKeys |->
            IF k = "fake_swap"
            THEN [program |-> "other_program", allocated |-> TRUE,
                  st |-> FakeState]
            ELSE NoAccount],
     tokens |-> InitTokens,
     lamports |-> InitLamports]

\* 1e9-scaled percentages and prices used in the payloads.
Percent(n) == Mul(N(n), B)

\* One base unit (8 decimals) for one / for two quote units (9 decimals).
PriceOne == N(100000000)

PriceTwo == N(200000000)

\* A well-formed create by the maker.
CreateCall(base_acc, quote_acc, price, bonus_base, bonus_quote) ==
    [disc |-> 0, n_accounts |-> 7, data_len_ok |-> TRUE,
     signers |-> {"maker"}, owner_acc |-> "maker", verify_acc |-> "maker",
     swap_acc |-> "pda", base_acc |-> base_acc, quote_acc |-> quote_acc,
     rent_acc |-> "rent", uuid |-> 1, bump_seed |-> 255, price |-> price,
     bonus_base |-> bonus_base, bonus_quote |-> bonus_quote]

\* The create of test_initialize_swap (tests.rs 58-72): six accounts (payer,
\* storage, base, quote, system program, rent), the payer signing, the
\* storage account at the address derived from the id and its bump, price 1,
\* and one and the same system-owned account without data as base and quote.
TestInitializeSwapCall ==
    [CreateCall("ref", "ref", N(1), << >>, << >>) EXCEPT !.n_accounts = 6]

\* Well-formed creates (a plain position, one with both bonuses at the
\* other price, a native one, one with a bonus above 100 percent, one on the
\* second vault), and creates with one thing wrong.
CreateCalls ==
    LET t == CreateCall("vaultB", "makerQ", PriceOne, << >>, << >>) IN
    { t,
      CreateCall("vaultB", "makerQ", PriceTwo, Percent(50), Percent(50)),
      CreateCall("vaultB", "makerW", PriceOne, Percent(50), Percent(50)),
      CreateCall("vaultB", "makerQ", PriceOne, << >>, Percent(200)),
      CreateCall("vaultB2", "makerQ", PriceOne, << >>, << >>),
      [t EXCEPT !.data_len_ok = FALSE], [t EXCEPT !.n_accounts = 6],
      [t EXCEPT !.signers = {}], [t EXCEPT !.signers = {"mallory"}],
      [t EXCEPT !.bump_seed = 254], [t EXCEPT !.uuid = 2],
      [t EXCEPT !.swap_acc = "fake_swap"], [t EXCEPT !.base_acc = "makerB"],
      [t EXCEPT !.base_acc = "maker"], [t EXCEPT !.quote_acc = "pdaQ"],
      [t EXCEPT !.quote_acc = "vaultB2"], [t EXCEPT !.quote_acc = "maker"],
      [t EXCEPT !.price = << >>], [t EXCEPT !.rent_acc = "maker"],
      [t EXCEPT !.disc = 3], TestInitializeSwapCall }

\* A well-formed swap by the taker: for a token quote, or for native SOL.
SwapCall(native, vault_base_acc, quote_in, bonus_base_acc, bonus_quote_acc) ==
    [disc |-> 1, n_accounts |-> 14, data_len_ok |-> TRUE,
     signers |-> {"taker"}, user_acc |-> "taker", swap_acc |-> "pda",
     vault_base_acc |-> vault_base_acc,
     vault_quote_acc |-> IF native THEN "maker" ELSE "makerQ",
     user_base_acc |-> "takerB",
     user_quote_acc |-> IF native THEN "takerW" ELSE "takerQ",
     base_mint_acc |-> "mintB",
     quote_mint_acc |-> IF native THEN WSOL_MINT ELSE "mintQ",
     bonus_base_acc |-> bonus_base_acc, bonus_quote_acc |-> bonus_quote_acc,
     wsol_temp_acc |-> "ataW", quote_in |-> quote_in]

\* The largest quote_in a taker tries (besides 0 and u64::MAX).
MaxQuoteIn == 2

\* Swaps with one thing wrong, around the well-formed swap t.
SwapDeviations(t) ==
    { [t EXCEPT !.n_accounts = 13], [t EXCEPT !.signers = {}],
      [t EXCEPT !.data_len_ok = FALSE], [t EXCEPT !.quote_in = << >>],
      [t EXCEPT !.quote_in = << >>, !.signers = {}],
      [t EXCEPT !.quote_in = U64_MAX], [t EXCEPT !.swap_acc = "fake_swap"],
      [t EXCEPT !.vault_base_acc = "takerB"],
      [t EXCEPT !.vault_base_acc = "maker"],
      [t EXCEPT !.vault_quote_acc = "takerQ"],
      [t EXCEPT !.user_base_acc = "takerQ"],
      [t EXCEPT !.user_quote_acc = "takerB"],
      [t EXCEPT !.user_quote_acc = "taker"],
      [t EXCEPT !.base_mint_acc = "mintQ"],
      [t EXCEPT !.base_mint_acc = "maker"],
      [t EXCEPT !.quote_mint_acc = "mintB"],
      [t EXCEPT !.quote_mint_acc = "maker"],
      [t EXCEPT !.bonus_base_acc = "refQ"],
      [t EXCEPT !.bonus_base_acc = "ref"],
      [t EXCEPT !.bonus_quote_acc = "refB"] }

\* Native swaps with one thing wrong.
NativeSwapDeviations(t) ==
    { [t EXCEPT !.vault_quote_acc = "makerW"],
      [t EXCEPT !.user_quote_acc = "takerQ"],
      [t EXCEPT !.quote_mint_acc = "mintQ"],
      [t EXCEPT !.bonus_base_acc = "refQ"],
      [t EXCEPT !.wsol_temp_acc = "takerW"] }

\* Well-formed swaps that name the vaults themselves as bonus recipients.
AliasedSwapCalls ==
    { SwapCall(FALSE, "vaultB", N(2), "vaultB", "makerQ"),
      SwapCall(TRUE, "vaultB", N(2), "vaultB", "maker") }

SwapCalls ==
    AliasedSwapCalls \cup
    { SwapCall(native, "vaultB", N(q), bonus[1], IF native THEN bonus[2] ELSE bonus[3]) :
        native \in BOOLEAN, q \in 1..MaxQuoteIn,
        bonus \in {<<"takerB", "takerW", "takerQ">>, <<"refB", "ref", "refQ">>} }
    \cup { SwapCall(FALSE, "vaultB2", N(1), "takerB", "takerQ") }
    \cup SwapDeviations(SwapCall(FALSE, "vaultB", N(2), "refB", "refQ"))
    \cup NativeSwapDeviations(SwapCall(TRUE, "vaultB", N(2), "refB", "ref"))
    \cup { [SwapCall(TRUE, "vaultB", N(1), "takerB", "takerW") EXCEPT
               !.swap_acc = "fake_swap", !.vault_quote_acc = "mallory"] }

\* A well-formed close by the maker.
CloseCall(vault_base_acc) ==
    [disc |-> 2, n_accounts |-> 5, signers |-> {"maker"},
     owner_acc |-> "maker", swap_acc |-> "pda",
     vault_base_acc |-> vault_base_acc, owner_base_acc |-> "makerB"]

CloseCalls ==
    LET t == CloseCall("vaultB") IN
    { t, CloseCall("vaultB2"),
      [t EXCEPT !.n_accounts = 4], [t EXCEPT !.signers = {}],
      [t EXCEPT !.owner_acc = "mallory", !.signers = {"mallory"}],
      [t EXCEPT !.owner_acc = "mallory", !.signers = {"mallory"},
                !.swap_acc = "fake_swap"],
      [t EXCEPT !.swap_acc = "fake_swap"],
      [t EXCEPT !.owner_base_acc = "makerQ"],
      [t EXCEPT !.owner_base_acc = "maker"],
      [t EXCEPT !.owner_base_acc = "vaultB"] }

(***************************************************************************)
(* The state machine.                                                      *)
(***************************************************************************)

\* ledger:  the accounts.
\* call:    the last instruction sent (none after the runtime's clean-up).
\* outcome: what its handler returned, where it stopped and the CPIs issued.
\* opens:   per storage address, how many creates have succeeded.
\* probe:   a call of an arithmetic helper (SpecMath only).
VARIABLES ledger, call, outcome, opens, probe

vars == <<ledger, call, outcome, opens, probe>>

NoCall == [disc |-> 255]

NoOutcome == [ok |-> TRUE, err |-> "Ok", at |-> "", trace |-> << >>]

NoProbe == [fn |-> "none", ran |-> FALSE, out |-> None]

InitAccounts ==
    /\ ledger = InitLedger
    /\ call = NoCall
    /\ outcome = NoOutcome
    /\ opens = [k \in SwapKeys |-> 0]

Init == InitAccounts /\ probe = NoProbe

\* The state after instruction c whose handler returned o: the runtime
\* commits or discards what the handler did.
After(c, o) ==
    [ledger  |-> Committed(ledger, o),
     call    |-> c,
     outcome |-> [ok |-> o.ok, err |-> o.err, at |-> o.at,
                  trace |-> o.trace],
     opens   |-> IF c.disc = 0 /\ o.ok
                 THEN [opens EXCEPT ![c.swap_acc] = @ + 1]
                 ELSE opens]

\* One instruction: the entrypoint runs the handler on the ledger.
Execute(c) == After(c, process_instruction(ledger, c))

Create ==
    \E c \in CreateCalls : \E next \in {Execute(c)} :
        /\ ledger' = next.ledger
        /\ call' = next.call
        /\ outcome' = next.outcome
        /\ opens' = next.opens
        /\ UNCHANGED probe

Swap ==
    \E c \in SwapCalls : \E next \in {Execute(c)} :
        /\ ledger' = next.ledger
        /\ call' = next.call
        /\ outcome' = next.outcome
        /\ opens' = next.opens
        /\ UNCHANGED probe

Close ==
    \E c \in CloseCalls : \E next \in {Execute(c)} :
        /\ ledger' = next.ledger
        /\ call' = next.call
        /\ outcome' = next.outcome
        /\ opens' = next.opens
        /\ UNCHANGED probe

\* Between transactions the runtime removes an account left without
\* lamports: its data is gone and the address is free again.
Reap ==
    /\ \E k \in SwapKeys :
        /\ ledger.lamports[k] = 0
        /\ ledger.swap_data[k] # NoAccount
        /\ ledger' = [ledger EXCEPT !.swap_data[k] = NoAccount]
    /\ call' = NoCall
    /\ outcome' = NoOutcome
    /\ UNCHANGED <<opens, probe>>

Next == Create \/ Swap \/ Close \/ Reap

Spec == Init /\ [][Next]_vars

(***************************************************************************)
(* Inputs on which the arithmetic helpers are exercised.                   *)
(***************************************************************************)

\* Small values 0..MaxProbe are tried as amounts, prices and decimals.
MaxProbe == 2

\* u64 amounts: small ones, an odd one, one whole 9-decimal token, and the
\* top of the range.
ProbeAmounts ==
    {N(k) : k \in 0..MaxProbe} \cup {N(7), N(1000000000), Pow10(19), U64_MAX}

\* 1e9-scaled prices: zero, tiny, 1:1, 2:1, 3:1 and the top of the range.
ProbePrices ==
    {N(k) : k \in 0..MaxProbe}
        \cup {N(1000000000), N(2000000000), Mul(N(3), B), U64_MAX}

\* Mint decimals (u8): small ones, the usual 9, and the values around the
\* points where 10^d, q * 10^d * 1e9 and p * 10^d leave the u128 range.
ProbeDecimals == (0..MaxProbe) \cup {9, 11, 20, 38, 39}

\* 1e9-scaled percentages: 0, 1%, 50%, 100%, just above, and the top.
ProbePercentages ==
    {N(k) : k \in 0..MaxProbe}
        \cup {N(1000000000), Mul(N(50), B), denominator,
              Add(denominator, N(1)), U64_MAX}

ProbeInputs ==
    [fn : {"compute_base_units"}, quote_units : ProbeAmounts,
     price_scaled : ProbePrices, base_decimals : ProbeDecimals,
     quote_decimals : ProbeDecimals, ran : {FALSE}, out : {None}]
    \cup
    [fn : {"calculate_base_bonus", "calculate_quote_bonus"},
     bonus_percentage : ProbePercentages, amount : ProbeAmounts,
     ran : {FALSE}, out : {None}]
    \cup
    [fn : {"swap_amounts"}, quote_units : ProbeAmounts,
     price_scaled : ProbePrices, bonus_quote : ProbePercentages,
     base_decimals : {0, 9}, quote_decimals : {0, 9},
     bonus_applies : BOOLEAN, ran : {FALSE}, out : {None}]

InitMath == InitAccounts /\ probe \in ProbeInputs

RunComputeBaseUnits ==
    /\ probe.fn = "compute_base_units" /\ ~probe.ran
    /\ probe' = [probe EXCEPT !.ran = TRUE, !.out =
            compute_base_units(probe.quote_units, probe.price_scaled,
                               probe.base_decimals, probe.quote_decimals)]
    /\ UNCHANGED <<ledger, call, outcome, opens>>

RunCalculateBaseBonus ==
    /\ probe.fn = "calculate_base_bonus" /\ ~probe.ran
    /\ probe' = [probe EXCEPT !.ran = TRUE, !.out =
            calculate_base_bonus(probe.bonus_percentage, probe.amount)]
    /\ UNCHANGED <<ledger, call, outcome, opens>>

RunCalculateQuoteBonus ==
    /\ probe.fn = "calculate_quote_bonus" /\ ~probe.ran
    /\ probe' = [probe EXCEPT !.ran = TRUE, !.out =
            calculate_quote_bonus(probe.bonus_percentage, probe.amount)]
    /\ UNCHANGED <<ledger, call, outcome, opens>>

RunSwapAmounts ==
    /\ probe.fn = "swap_amounts" /\ ~probe.ran
    /\ probe' = [probe EXCEPT !.ran = TRUE, !.out =
            swap_amounts(probe.quote_units, probe.price_scaled,
                         probe.bonus_quote, probe.base_decimals,
                         probe.quote_decimals, probe.bonus_applies)]
    /\ UNCHANGED <<ledger, call, outcome, opens>>

NextMath ==
    \/ RunComputeBaseUnits
    \/ RunCalculateBaseBonus
    \/ RunCalculateQuoteBonus
    \/ RunSwapAmounts

SpecMath == InitMath /\ [][NextMath]_vars

(***************************************************************************)
(* Exact (unbounded) quantities the claims about the arithmetic refer to.  *)
(***************************************************************************)

\* quote_in * 10^base_decimals * 10^9, without any width limit.
ExactNum(q, bd) == Mul(Mul(q, Pow10(bd)), B)

\* price * 10^quote_decimals, without any width limit.
ExactDen(p, qd) == Mul(p, Pow10(qd))

\* r = floor(num / den), said without a division: r*den <= num < (r+1)*den.
IsFloorOf(r, num, den) ==
    /\ Leq(Mul(r, den), num)
    /\ Lt(num, Mul(Add(r, N(1)), den))

\* floor(num / den) = 0, for den # 0.
FloorIsZero(num, den) == Lt(num, den)

\* floor(num / den) > 2^64 - 1, for den # 0.
FloorAboveU64(num, den) == Leq(Mul(Add(U64_MAX, N(1)), den), num)

\* floor(num / den) lies in 1 .. 2^64 - 1.
FloorInU64(num, den) ==
    den # << >> /\ ~FloorIsZero(num, den) /\ ~FloorAboveU64(num, den)

RanComputeBaseUnits == probe.fn = "compute_base_units" /\ probe.ran

RanBonus ==
    probe.fn \in {"calculate_base_bonus", "calculate_quote_bonus"} /\ probe.ran

ProbeNum == ExactNum(probe.quote_units, probe.base_decimals)

ProbeDen == ExactDen(probe.price_scaled, probe.quote_decimals)

(***************************************************************************)
(* C1                                                                      *)
(***************************************************************************)

\* C1 as stated: whenever price > 0 and floor(quote_in * 10^bd * 10^9 /
\* (price * 10^qd)) lies in 1..2^64-1, compute_base_units returns exactly
\* that floor and does not fail on an intermediate overflow.
C1_FloorWheneverResultFits ==
    (RanComputeBaseUnits /\ probe.price_scaled # << >>
        /\ FloorInU64(ProbeNum, ProbeDen))
    => (probe.out.ok /\ IsFloorOf(probe.out.v, ProbeNum, ProbeDen))

\* C1 amended: compute_base_units returns exactly the floor for every input
\* with price > 0 whose floor lies in 1..2^64-1 and whose numerator
\* quote_in * 10^bd * 10^9 fits in 128 bits; when the numerator exceeds
\* 2^128 - 1 it fails with InvalidParameters whatever the quotient is.
C1_FloorWhenNumeratorFits ==
    (RanComputeBaseUnits /\ probe.price_scaled # << >>)
    => /\ (FloorInU64(ProbeNum, ProbeDen) /\ Leq(ProbeNum, U128_MAX))
            => (probe.out.ok /\ IsFloorOf(probe.out.v, ProbeNum, ProbeDen))
       /\ Lt(U128_MAX, ProbeNum) => probe.out = Err("InvalidParameters")

\* A call that returns an inexact quotient whose numerator needs more than
\* 64 bits.
C1_Witness ==
    /\ RanComputeBaseUnits /\ probe.out.ok
    /\ Lt(U64_MAX, ProbeNum)
    /\ Lt(Mul(probe.out.v, ProbeDen), ProbeNum)

(***************************************************************************)
(* C2                                                                      *)
(***************************************************************************)

\* C2: compute_base_units returns an error (never a wrapped, clamped or zero
\* value) when price is 0, when the floor is 0 or when the floor exceeds
\* 2^64-1; and the arithmetic block of swap fails on such inputs too.
C2_RejectsZeroPriceZeroResultAndOversize ==
    (probe.fn \in {"compute_base_units", "swap_amounts"} /\ probe.ran
        /\ (\/ probe.price_scaled = << >>
            \/ FloorIsZero(ProbeNum, ProbeDen)
            \/ FloorAboveU64(ProbeNum, ProbeDen)))
    => probe.out = Err("InvalidParameters")

\* A call whose numerator and denominator fit in 128 bits and whose quotient
\* is above 2^64-1, and one whose quotient is 0: both rejected; and a swap
\* arithmetic block rejected for a zero quotient.
C2_Witness ==
    /\ probe.ran /\ probe.price_scaled # << >>
    /\ Leq(ProbeNum, U128_MAX) /\ Leq(ProbeDen, U128_MAX)
    /\ ~probe.out.ok
    /\ \/ probe.fn = "compute_base_units" /\ FloorAboveU64(ProbeNum, ProbeDen)
       \/ probe.fn = "swap_amounts" /\ FloorIsZero(ProbeNum, ProbeDen)
            /\ probe.quote_units # << >>

(***************************************************************************)
(* C3                                                                      *)
(***************************************************************************)

\* C3: for fixed price and decimals compute_base_units is non-decreasing in
\* quote_in over the inputs on which it succeeds, and every returned r
\* satisfies r <= exact quotient < r + 1.
C3_MonotoneAndFloor ==
    (RanComputeBaseUnits /\ probe.out.ok)
    => /\ IsFloorOf(probe.out.v, ProbeNum, ProbeDen)
       /\ \A q2 \in ProbeAmounts :
            LET out2 == compute_base_units(q2, probe.price_scaled,
                            probe.base_decimals, probe.quote_decimals)
            IN  (Leq(probe.quote_units, q2) /\ out2.ok)
                    => Leq(probe.out.v, out2.v)

\* Two successful calls at the same price and decimals, the larger quote_in
\* giving a strictly larger result, the smaller one rounded down.
C3_Witness ==
    /\ RanComputeBaseUnits /\ probe.out.ok
    /\ Lt(Mul(probe.out.v, ProbeDen), ProbeNum)
    /\ \E q2 \in ProbeAmounts :
            LET out2 == compute_base_units(q2, probe.price_scaled,
                            probe.base_decimals, probe.quote_decimals)
            IN  Lt(probe.quote_units, q2) /\ out2.ok /\ Lt(probe.out.v, out2.v)

(***************************************************************************)
(* C4                                                                      *)
(***************************************************************************)

\* C4: calculate_base_bonus and calculate_quote_bonus return
\* floor(amount * percentage / (100 * 10^9)) whenever that fits in 64 bits,
\* 0 when percentage = 0, amount when percentage = 100 * 10^9, and an error
\* (not a clamped value) when the quotient exceeds 2^64-1.
C4_BonusIsFloorOfPercentage ==
    RanBonus
    => LET num == Mul(probe.amount, probe.bonus_percentage) IN
       /\ ~FloorAboveU64(num, denominator)
            => (probe.out.ok /\ IsFloorOf(probe.out.v, num, denominator))
       /\ FloorAboveU64(num, denominator)
            => probe.out = Err("InvalidParameters")
       /\ probe.bonus_percentage = << >> => probe.out = Ok(<< >>)
       /\ probe.bonus_percentage = denominator => probe.out = Ok(probe.amount)

\* A quote bonus that is a proper fraction rounded down (50% of 7 is 3).
C4_Witness ==
    /\ RanBonus /\ probe.fn = "calculate_quote_bonus" /\ probe.out.ok
    /\ probe.out.v # << >> /\ probe.out.v # probe.amount
    /\ Lt(Mul(probe.out.v, denominator),
          Mul(probe.amount, probe.bonus_percentage))


(***************************************************************************)
(* Properties of the handlers.                                             *)
(***************************************************************************)

\* A storage account that holds a live record of this program.
IsRecord(L, k) ==
    /\ k \in SwapKeys
    /\ L.swap_data[k].program = PROGRAM_ID
    /\ L.swap_data[k].allocated
    /\ L.lamports[k] > 0

\* C6: in swap no validation or arithmetic check of the handler fails after
\* a transfer of the same call has been issued.
C6_ChecksBeforeFirstTransfer ==
    call.disc = 1 /\ outcome.at = "handler" => outcome.trace = << >>

\* What create has verified when it succeeds on ledger L with call c.
CreateRequirements(L, c) ==
    /\ c.owner_acc \in c.signers
    /\ c.swap_acc = derive_address(c.uuid, c.bump_seed)
    /\ c.swap_acc \in SwapKeys
    /\ ~L.swap_data[c.swap_acc].allocated
    /\ c.base_acc \in TokenKeys /\ c.quote_acc \in TokenKeys
    /\ L.tokens[c.base_acc].mint # L.tokens[c.quote_acc].mint
    /\ L.tokens[c.base_acc].owner = c.swap_acc
    /\ L.tokens[c.quote_acc].owner # c.swap_acc
    /\ c.price # << >>

\* The mint a record is paid in.
QuoteMintOf(L, st) ==
    IF st.quote_sol THEN WSOL_MINT
    ELSE IF st.quote \in TokenKeys THEN L.tokens[st.quote].mint
    ELSE ZERO_KEY

\* A live record has a price, a base vault of another mint than the quote,
\* and an address that derives from its id and bump.
RecordWellFormed(L, k) ==
    LET st == L.swap_data[k].st IN
    /\ st.price # << >>
    /\ IsTokenAccount(L, st.base)
    /\ L.tokens[st.base].mint # QuoteMintOf(L, st)
    /\ derive_address(st.uuid, st.bump_seed) = k

\* C7: every successful create had a signing owner, the derived address, an
\* empty storage account, different mints, a base account under the
\* authority of the storage address, a quote account that is not, and a
\* price other than 0; and every live record is well formed in every state.
C7_CreateRequirementsAndRecordInvariant ==
    /\ [](\A k \in SwapKeys : IsRecord(ledger, k) => RecordWellFormed(ledger, k))
    /\ [][call'.disc = 0 /\ outcome'.ok => CreateRequirements(ledger, call')]_vars

\* A create has just succeeded and its record is live.
C7_Witness ==
    /\ call.disc = 0 /\ outcome.ok
    /\ IsRecord(ledger, call.swap_acc)
    /\ ledger.swap_data[call.swap_acc].st.price = call.price
    /\ ledger.swap_data[call.swap_acc].st.base = call.base_acc

\* A create that gets as far as the check of the storage account's data.
ReachesDataCheck(c) ==
    /\ c.disc = 0 /\ c.data_len_ok /\ c.n_accounts = 7
    /\ c.owner_acc \in c.signers
    /\ c.swap_acc = derive_address(c.uuid, c.bump_seed)
    /\ c.swap_acc \in SwapKeys

\* A create on a storage account that holds data fails with
\* AccountAlreadyInitialized, issues no allocation and changes nothing.
PopulatedStorageRejected ==
    ReachesDataCheck(call') /\ ledger.swap_data[call'.swap_acc].allocated
        => /\ outcome'.err = "AccountAlreadyInitialized"
           /\ outcome'.trace = << >>
           /\ ledger' = ledger

\* C8 as stated: a create on populated storage is rejected without an
\* allocation, and over any sequence of operations at most one create
\* succeeds for a storage address.
C8_AtMostOneOpenPerAddress ==
    /\ [](\A k \in SwapKeys : opens[k] <= 1)
    /\ [][PopulatedStorageRejected]_vars

\* C8, amended: a create on populated storage is rejected without an
\* allocation, and a create succeeds only on a storage address that holds
\* no data, so at most one succeeds until a close has emptied the account
\* and the runtime has reclaimed it.
C8_OneOpenPerAllocation ==
    [][/\ PopulatedStorageRejected
       /\ \A k \in SwapKeys :
            opens'[k] # opens[k]
                => /\ opens'[k] = opens[k] + 1
                   /\ ~ledger.swap_data[k].allocated
                   /\ IsRecord(ledger', k)]_vars

\* A second record lives at the address, after the first was closed and
\* reclaimed, and a further create on it has just been rejected.
C8_Witness ==
    /\ opens["pda"] = 2
    /\ IsRecord(ledger, "pda")
    /\ call.disc = 0 /\ outcome.err = "AccountAlreadyInitialized"

\* C9: swap never writes the record: neither what the handler itself did,
\* whether it returned Ok or an error, nor what is on the ledger afterwards
\* differs from the storage accounts before the call.
C9_SwapLeavesRecordUnchanged ==
    [][call'.disc = 1
        => /\ swap(ledger, call').L.swap_data = ledger.swap_data
           /\ ledger'.swap_data = ledger.swap_data]_vars

\* A swap on a position with both bonuses has succeeded, all four legs, and
\* the record still shows the price it was created with.
C9_Witness ==
    /\ call.disc = 1 /\ outcome.ok
    /\ Len(outcome.trace) = 4
    /\ IsRecord(ledger, call.swap_acc)
    /\ ledger.swap_data[call.swap_acc].st.price = PriceTwo
    /\ ledger.tokens[call.vault_base_acc].amount < InitVaultBase

\* What swap has verified when it succeeds on ledger L with call c.
SwapRequirements(L, c) ==
    /\ c.user_acc \in c.signers
    /\ c.quote_in # << >>
    /\ c.swap_acc \in SwapKeys
    /\ {c.vault_base_acc, c.user_base_acc, c.user_quote_acc} \subseteq TokenKeys
    /\ LET st == L.swap_data[c.swap_acc].st IN
       /\ c.vault_base_acc = st.base
       /\ L.tokens[c.vault_base_acc].owner = c.swap_acc
       /\ L.tokens[c.vault_base_acc].mint = L.tokens[c.user_base_acc].mint
       /\ L.tokens[c.vault_base_acc].mint = c.base_mint_acc
       /\ ~st.quote_sol
            => /\ c.vault_quote_acc \in TokenKeys
               /\ L.tokens[c.vault_quote_acc].owner # c.swap_acc
               /\ L.tokens[c.vault_quote_acc].mint
                      = L.tokens[c.user_quote_acc].mint
               /\ L.tokens[c.vault_quote_acc].mint = c.quote_mint_acc
       /\ st.quote_sol => c.quote_mint_acc = WSOL_MINT

\* C10: every successful swap had a signing taker, quote_in > 0, the
\* record's base vault under the authority of the storage address with the
\* mint of the taker's base account and of the supplied base mint, and for a
\* token quote a quote vault not under that authority with the mint of the
\* taker's quote account and of the supplied quote mint, for a native quote
\* the wrapped-native mint.
C10_SwapRequirements ==
    [][call'.disc = 1 /\ outcome'.ok => SwapRequirements(ledger, call')]_vars

\* A native swap has succeeded: the temporary account was created, filled
\* and closed, the lamports were sent on, and the base was delivered.
C10_Witness ==
    /\ call.disc = 1 /\ outcome.ok
    /\ ledger.swap_data[call.swap_acc].st.quote_sol
    /\ Len(outcome.trace) >= 5
    /\ outcome.trace[4].cpi = "SystemTransfer"
    /\ ledger.tokens[call.user_base_acc].amount > 0

\* A swap that gets as far as the comparisons of the supplied vaults with
\* the record: its accounts, signer and payload are in order, the record
\* loads, the token accounts and mints decode.
ReachesVaultChecks(L, c) ==
    /\ c.disc = 1 /\ c.n_accounts = 14 /\ c.user_acc \in c.signers
    /\ c.data_len_ok /\ c.quote_in # << >>
    /\ HasSwapStateLen(L, c.swap_acc)
    /\ IsTokenAccount(L, c.vault_base_acc)
    /\ IsTokenAccount(L, c.user_base_acc)
    /\ IsTokenAccount(L, c.user_quote_acc)
    /\ c.base_mint_acc \in MintKeys
    /\ L.swap_data[c.swap_acc].st.quote_sol \/ c.quote_mint_acc \in MintKeys

\* The record a call names holds a native quote.
NativeRecord(L, c) ==
    HasSwapStateLen(L, c.swap_acc) /\ L.swap_data[c.swap_acc].st.quote_sol

\* C11 as stated: on a native record no swap is rejected because the quote
\* account it supplies differs from the record's stored quote reference.
C11_NativeSkipsQuoteComparison ==
    call.disc = 1 /\ NativeRecord(ledger, call)
        => outcome.err # "WrongVaultQuote"

\* C11, amended: the comparison is made for native and token quotes alike.
\* A swap that reaches it with the record's base vault and a quote account
\* other than the record's stored quote reference (for a native record the
\* recipient wallet) fails with WrongVaultQuote before any transfer; every
\* successful swap supplied the stored reference, and a successful native
\* swap sent its lamports to it.
C11_QuoteComparedAlsoWhenNative ==
    [][call'.disc = 1 /\ HasSwapStateLen(ledger, call'.swap_acc)
        => LET st == ledger.swap_data[call'.swap_acc].st IN
           /\ ReachesVaultChecks(ledger, call')
                /\ st.base = call'.vault_base_acc
                /\ st.quote # call'.vault_quote_acc
                => /\ outcome'.err = "WrongVaultQuote"
                   /\ outcome'.trace = << >>
           /\ outcome'.ok
                => /\ st.quote = call'.vault_quote_acc
                   /\ st.quote_sol
                        => \E i \in 1..Len(outcome'.trace) :
                             /\ outcome'.trace[i].cpi = "SystemTransfer"
                             /\ outcome'.trace[i].to = st.quote]_vars

\* A swap on a native record supplied the maker's wrapped-native token
\* account instead of the stored recipient wallet and was rejected.
C11_Witness ==
    /\ call.disc = 1 /\ NativeRecord(ledger, call)
    /\ IsRecord(ledger, call.swap_acc)
    /\ call.vault_quote_acc # ledger.swap_data[call.swap_acc].st.quote
    /\ call.vault_base_acc = ledger.swap_data[call.swap_acc].st.base
    /\ outcome.err = "WrongVaultQuote"
    /\ outcome.trace = << >>

\* A swap or close that gets as far as reading the record: its accounts,
\* signer and (for swap) payload are in order and the storage account has
\* the size of a record.
ReachesRecord(L, c) ==
    /\ HasSwapStateLen(L, c.swap_acc)
    /\ \/ /\ c.disc = 1 /\ c.n_accounts = 14 /\ c.user_acc \in c.signers
          /\ c.data_len_ok /\ c.quote_in # << >>
       \/ /\ c.disc = 2 /\ c.n_accounts = 5 /\ c.owner_acc \in c.signers

\* C12: a swap or close that reads a record whose stored id and bump do not
\* re-derive the supplied storage account's address fails with InvalidPDA,
\* and has issued no transfer.
C12_SwapAndCloseRederiveAddress ==
    [][ReachesRecord(ledger, call')
        => LET st == ledger.swap_data[call'.swap_acc].st IN
           derive_address(st.uuid, st.bump_seed) # call'.swap_acc
               => /\ outcome'.err = "InvalidPDA"
                  /\ outcome'.trace = << >>]_vars

\* A create that gets as far as validate_pda.
ReachesPdaCheck(c) ==
    c.disc = 0 /\ c.data_len_ok /\ c.n_accounts = 7 /\ c.owner_acc \in c.signers

\* C13: a create that reaches validate_pda fails with InvalidPDA exactly
\* when the supplied storage address is not the one derived from the id and
\* bump of the payload; a successful create leaves its record, holding that
\* id and bump, at the address they derive; and on the address of a record
\* the record's id with any other bump is rejected with InvalidPDA.
C13_ValidatePdaRoundTrip ==
    [][ReachesPdaCheck(call')
        => LET c == call' IN
           /\ outcome'.err = "InvalidPDA"
                <=> derive_address(c.uuid, c.bump_seed) # c.swap_acc
           /\ validate_pda(c.bump_seed, c.uuid, c.swap_acc).ok
                <=> derive_address(c.uuid, c.bump_seed) = c.swap_acc
           /\ outcome'.ok
                => /\ IsRecord(ledger', c.swap_acc)
                   /\ ledger'.swap_data[c.swap_acc].st.uuid = c.uuid
                   /\ ledger'.swap_data[c.swap_acc].st.bump_seed = c.bump_seed
                   /\ derive_address(c.uuid, c.bump_seed) = c.swap_acc
           /\ (/\ IsRecord(ledger, c.swap_acc)
               /\ ledger.swap_data[c.swap_acc].st.uuid = c.uuid
               /\ ledger.swap_data[c.swap_acc].st.bump_seed # c.bump_seed)
                => outcome'.err = "InvalidPDA" /\ ledger' = ledger]_vars

\* A position opened with id 1 and bump 255 lives at the derived address,
\* and a create naming the same address and id with another bump has just
\* been rejected with InvalidPDA.
C13_Witness ==
    /\ call.disc = 0 /\ outcome.err = "InvalidPDA"
    /\ IsRecord(ledger, call.swap_acc)
    /\ ledger.swap_data[call.swap_acc].st.uuid = call.uuid
    /\ ledger.swap_data[call.swap_acc].st.bump_seed # call.bump_seed
    /\ derive_address(call.uuid,
                      ledger.swap_data[call.swap_acc].st.bump_seed)
           = call.swap_acc
    /\ opens[call.swap_acc] >= 1

\* floor(amount * percentage / (100 * 10^9)).
PercentageOf(percentage, amount) ==
    Div(Mul(amount, percentage), Mul(N(100), Pow10(9)))

\* The quote bonus a swap c owes on record st: the percentage of quote_in
\* when a quote bonus is configured and the recipient is not the taker's own
\* quote account, otherwise 0.
QuoteBonusDue(st, c) ==
    IF st.bonus_quote # << >> /\ c.bonus_quote_acc # c.user_quote_acc
    THEN PercentageOf(st.bonus_quote, c.quote_in)
    ELSE << >>

\* What account k is credited in quote by swap c on record st.
QuoteCredit(st, c, k) ==
    (IF k = c.vault_quote_acc
     THEN ToNat(Sub(c.quote_in, QuoteBonusDue(st, c))) ELSE 0)
    + (IF k = c.bonus_quote_acc THEN ToNat(QuoteBonusDue(st, c)) ELSE 0)

QuoteDebit(c, k) == IF k = c.user_quote_acc THEN ToNat(c.quote_in) ELSE 0

\* The quote side of a successful swap between ledgers L and M.  Token
\* quote: every account of the quote mint changes by its credit less its
\* debit.  Native quote: the taker's wrapped-native account loses quote_in
\* in tokens and lamports, the recipients gain their credit in lamports, and
\* nothing else changes in wrapped-native tokens or lamports.
QuoteSettled(L, M, st, c) ==
    /\ Leq(QuoteBonusDue(st, c), c.quote_in)
    /\ \A k \in TokenKeys :
         L.tokens[k].open /\ L.tokens[k].mint = c.quote_mint_acc
            => M.tokens[k].amount
                 = L.tokens[k].amount - QuoteDebit(c, k)
                     + (IF st.quote_sol THEN 0 ELSE QuoteCredit(st, c, k))
    /\ st.quote_sol
         => /\ \A k \in AllKeys :
                 M.lamports[k]
                   = L.lamports[k] - QuoteDebit(c, k) + QuoteCredit(st, c, k)
            /\ M.tokens[c.wsol_temp_acc] = L.tokens[c.wsol_temp_acc]

\* C14: a successful swap debits the taker's quote account by exactly
\* quote_in, credits the bonus recipient floor(quote_in * bonus_quote /
\* (100 * 10^9)) when a quote bonus is configured and the recipient is not
\* the taker's quote account, and credits the quote vault (or the native
\* recipient) the rest; and a swap whose quote bonus exceeds quote_in fails
\* and changes nothing.
C14_QuoteDebitAndSplit ==
    [][call'.disc = 1 /\ HasSwapStateLen(ledger, call'.swap_acc)
        => LET st == ledger.swap_data[call'.swap_acc].st IN
           /\ outcome'.ok => QuoteSettled(ledger, ledger', st, call')
           /\ Lt(call'.quote_in, QuoteBonusDue(st, call'))
                => ~outcome'.ok /\ ledger' = ledger]_vars

\* A swap of quote_in 2 on a position with a 50 percent quote bonus has
\* succeeded: one unit went to the recipient, one to the vault.
C14_Witness ==
    /\ call.disc = 1 /\ outcome.ok
    /\ call.quote_in = N(2)
    /\ call.bonus_quote_acc # call.user_quote_acc
    /\ QuoteBonusDue(ledger.swap_data[call.swap_acc].st, call) = N(1)
    /\ \E i, j \in 1..Len(outcome.trace) :
         /\ i < j
         /\ outcome.trace[i].to = call.vault_quote_acc
         /\ outcome.trace[i].amount = N(1)
         /\ outcome.trace[j].to = call.bonus_quote_acc
         /\ outcome.trace[j].amount = N(1)

\* base_out of swap c on record st, from the full quote_in:
\* floor(quote_in * 10^base_decimals * 10^9 / (price * 10^quote_decimals)).
BaseOutDue(st, c) ==
    Div(ExactNum(c.quote_in, Decimals(c.base_mint_acc)),
        ExactDen(st.price,
                 IF st.quote_sol THEN 9 ELSE Decimals(c.quote_mint_acc)))

\* The base bonus swap c owes on record st: the percentage of base_out when
\* a base bonus is configured and the recipient is not the taker's own base
\* account, otherwise 0.
BaseBonusDue(st, c) ==
    IF st.bonus_base # << >> /\ c.bonus_base_acc # c.user_base_acc
    THEN PercentageOf(st.bonus_base, BaseOutDue(st, c))
    ELSE << >>

\* What account k is credited and debited in base by swap c on record st.
BaseCredit(st, c, k) ==
    (IF k = c.user_base_acc THEN ToNat(BaseOutDue(st, c)) ELSE 0)
    + (IF k = c.bonus_base_acc THEN ToNat(BaseBonusDue(st, c)) ELSE 0)

BaseDebit(st, c, k) ==
    IF k = c.vault_base_acc
    THEN ToNat(BaseOutDue(st, c)) + ToNat(BaseBonusDue(st, c))
    ELSE 0

\* The base side of a successful swap between ledgers L and M: every
\* account of the base mint changes by its credit less its debit.
BaseSettled(L, M, st, c) ==
    /\ st.price # << >>
    /\ \A k \in TokenKeys :
         L.tokens[k].open /\ L.tokens[k].mint = c.base_mint_acc
            => M.tokens[k].amount
                 = L.tokens[k].amount - BaseDebit(st, c, k)
                     + BaseCredit(st, c, k)

\* C15: a successful swap credits the taker's base account base_out computed
\* from the full quote_in, credits the base bonus recipient
\* floor(base_out * bonus_base / (100 * 10^9)) exactly when a base bonus is
\* configured and the recipient is not the taker's base account, and debits
\* the vault base_out plus that bonus.
C15_BaseOutAndBonus ==
    [][call'.disc = 1 /\ outcome'.ok
        => BaseSettled(ledger, ledger',
                       ledger.swap_data[call'.swap_acc].st, call')]_vars

\* A swap of quote_in 2 has succeeded on a position with both bonuses at 50
\* percent: the taker received base_out 2 for the full quote_in although
\* only 1 reached the quote recipient, and the base bonus recipient 1.
C15_Witness ==
    /\ call.disc = 1 /\ outcome.ok
    /\ call.quote_in = N(2)
    /\ call.bonus_base_acc # call.user_base_acc
    /\ call.bonus_base_acc # call.vault_base_acc
    /\ QuoteBonusDue(ledger.swap_data[call.swap_acc].st, call) = N(1)
    /\ BaseOutDue(ledger.swap_data[call.swap_acc].st, call) = N(2)
    /\ BaseBonusDue(ledger.swap_data[call.swap_acc].st, call) = N(1)
    /\ ledger.tokens[call.user_base_acc].amount >= 2
    /\ ledger.tokens[call.bonus_base_acc].amount >= 1
    /\ ledger.tokens[call.vault_base_acc].amount = 0

\* The legs of a swap among the CPIs it issued: the transfers that move
\* value to an account other than the temporary wrapped-native account, as
\* <<from, to, amount>>, in the order of issue.
ValueLegs(trace, c) ==
    LET legs == SelectSeq(trace,
                    LAMBDA e : /\ e.cpi \in {"TransferChecked", "SystemTransfer"}
                               /\ e.to # c.wsol_temp_acc) IN
    [i \in 1..Len(legs) |-> <<legs[i].from, legs[i].to, legs[i].amount>>]

\* The legs swap c owes on record st, in the order (1) taker to quote vault
\* or native recipient, (2) taker to quote bonus recipient when the quote
\* bonus is above 0, (3) vault to taker, (4) vault to base bonus recipient
\* when a base bonus is configured and the recipient is not the taker's
\* base account.
ExpectedLegs(st, c) ==
    LET payer == IF st.quote_sol THEN c.user_acc ELSE c.user_quote_acc IN
    << <<payer, c.vault_quote_acc, Sub(c.quote_in, QuoteBonusDue(st, c))>> >>
    \o (IF QuoteBonusDue(st, c) # << >>
        THEN << <<payer, c.bonus_quote_acc, QuoteBonusDue(st, c)>> >>
        ELSE << >>)
    \o << <<c.vault_base_acc, c.user_base_acc, BaseOutDue(st, c)>> >>
    \o (IF st.bonus_base # << >> /\ c.bonus_base_acc # c.user_base_acc
        THEN << <<c.vault_base_acc, c.bonus_base_acc, BaseBonusDue(st, c)>> >>
        ELSE << >>)

IsPrefix(s, t) ==
    Len(s) <= Len(t) /\ \A i \in 1..Len(s) : s[i] = t[i]

\* C16: the legs a swap has issued, whether it then succeeded or failed, are
\* an initial part of (1) quote payment, (2) quote bonus, (3) base_out,
\* (4) base bonus, all of them when it succeeded; and before any transfer
\* out of the base vault a quote payment to the quote vault or native
\* recipient has been issued.
C16_LegsInFixedOrder ==
    [][call'.disc = 1 /\ outcome'.trace # << >>
        => LET st   == ledger.swap_data[call'.swap_acc].st
               legs == ValueLegs(outcome'.trace, call') IN
           /\ IsPrefix(legs, ExpectedLegs(st, call'))
           /\ outcome'.ok => legs = ExpectedLegs(st, call')
           /\ \A j \in 1..Len(outcome'.trace) :
                outcome'.trace[j].from = call'.vault_base_acc
                    => \E i \in 1..(j - 1) :
                         /\ outcome'.trace[i].to = call'.vault_quote_acc
                         /\ outcome'.trace[i].from
                              \in {call'.user_quote_acc, call'.user_acc}]_vars

\* A swap has succeeded with all four legs, issued in the order quote
\* vault, quote bonus recipient, taker's base account, base bonus recipient,
\* to four different accounts.
C16_Witness ==
    /\ call.disc = 1 /\ outcome.ok
    /\ Len(ValueLegs(outcome.trace, call)) = 4
    /\ ValueLegs(outcome.trace, call)[1][2] = call.vault_quote_acc
    /\ ValueLegs(outcome.trace, call)[2][2] = call.bonus_quote_acc
    /\ ValueLegs(outcome.trace, call)[3][2] = call.user_base_acc
    /\ ValueLegs(outcome.trace, call)[4][2] = call.bonus_base_acc
    /\ Cardinality({call.vault_quote_acc, call.bonus_quote_acc,
                    call.user_base_acc, call.bonus_base_acc}) = 4

\* A swap whose payload is not the 8-byte layout or whose quote_in is 0.
BadSwapPayload(c) == c.disc = 1 /\ (~c.data_len_ok \/ c.quote_in = << >>)

\* C17: a swap with a payload of the wrong length or with quote_in 0 fails
\* in the handler, before the record is read and before any CPI, and changes
\* nothing; when its account list and signer are in order the error is
\* InvalidInstructionData, also on a storage account that holds no record.
C17_BadPayloadRejectedFirst ==
    [][BadSwapPayload(call')
        => /\ ~outcome'.ok /\ outcome'.at = "handler"
           /\ outcome'.trace = << >>
           /\ ledger' = ledger
           /\ outcome'.err \in {"NotEnoughAccountKeys",
                                "MissingRequiredSignature",
                                "InvalidInstructionData"}
           /\ call'.n_accounts = 14 /\ call'.user_acc \in call'.signers
                => outcome'.err = "InvalidInstructionData"]_vars

\* A swap with quote_in 0 was rejected with InvalidInstructionData although
\* its storage account holds no data that could be read as a record.
C17_Witness ==
    /\ call.disc = 1 /\ call.data_len_ok /\ call.quote_in = << >>
    /\ ~HasSwapStateLen(ledger, call.swap_acc)
    /\ outcome.err = "InvalidInstructionData"
    /\ outcome.trace = << >>

\* What close has verified when it succeeds on ledger L with call c.
CloseRequirements(L, c) ==
    /\ c.owner_acc \in c.signers
    /\ HasSwapStateLen(L, c.swap_acc)
    /\ c.owner_acc = L.swap_data[c.swap_acc].st.owner
    /\ c.vault_base_acc = L.swap_data[c.swap_acc].st.base
    /\ IsTokenAccount(L, c.vault_base_acc)
    /\ IsTokenAccount(L, c.owner_base_acc)
    /\ L.tokens[c.vault_base_acc].owner = c.swap_acc
    /\ L.tokens[c.vault_base_acc].mint = L.tokens[c.owner_base_acc].mint

\* C18: every successful close was signed by the caller, who is the record's
\* owner, on the record's base vault, whose token authority is the storage
\* address and whose mint is the destination's; and a close by anybody who
\* is not the record's owner fails and changes nothing.
C18_CloseRequirements ==
    [][call'.disc = 2
        => /\ outcome'.ok => CloseRequirements(ledger, call')
           /\ (/\ HasSwapStateLen(ledger, call'.swap_acc)
               /\ call'.owner_acc # ledger.swap_data[call'.swap_acc].st.owner)
                => ~outcome'.ok /\ ledger' = ledger]_vars

\* The maker has closed the position it opened: the record named the maker
\* as owner and the close it signed has gone through.
C18_Witness ==
    /\ call.disc = 2 /\ outcome.ok
    /\ call.owner_acc = "maker" /\ call.owner_acc \in call.signers
    /\ opens[call.swap_acc] >= 1
    /\ ~IsTokenAccount(ledger, call.vault_base_acc)
    /\ ~IsRecord(ledger, call.swap_acc)

\* Every byte of a record is 0.
AllBytesZero(st) ==
    /\ st.owner = ZERO_KEY /\ st.base = ZERO_KEY /\ st.quote = ZERO_KEY
    /\ st.uuid = 0 /\ st.bump_seed = 0 /\ ~st.quote_sol
    /\ st.price = << >> /\ st.bonus_base = << >> /\ st.bonus_quote = << >>

\* What a successful close c has done between ledgers L and M.
CloseEffects(L, M, c, trace) ==
    LET balance == L.tokens[c.vault_base_acc].amount IN
    /\ M.tokens[c.owner_base_acc].amount
         = (IF c.owner_base_acc = c.vault_base_acc THEN 0
            ELSE L.tokens[c.owner_base_acc].amount + balance)
    /\ balance = 0 => \A i \in 1..Len(trace) : trace[i].cpi # "Transfer"
    /\ balance > 0
         => /\ trace[1].cpi = "Transfer"
            /\ trace[1].from = c.vault_base_acc
            /\ trace[1].to = c.owner_base_acc
            /\ trace[1].amount = N(balance)
    /\ M.tokens[c.vault_base_acc] = NoToken
    /\ M.lamports[c.vault_base_acc] = 0
    /\ M.lamports[c.swap_acc] = 0
    /\ M.lamports[c.owner_acc]
         = L.lamports[c.owner_acc] + L.lamports[c.vault_base_acc]
             + L.lamports[c.swap_acc]
    /\ HasSwapStateLen(M, c.swap_acc)
    /\ AllBytesZero(M.swap_data[c.swap_acc].st)

\* C19: a successful close has credited the destination the vault's whole
\* base balance (by one transfer, none when the balance was 0), closed the
\* vault with its lamports credited to the owner, moved all lamports of the
\* storage account to the owner, and left every byte of its data 0.
C19_CloseEffects ==
    [][call'.disc = 2 /\ outcome'.ok
        => CloseEffects(ledger, ledger', call', outcome'.trace)]_vars

\* A close of a position whose vault still held base has succeeded: the
\* whole balance is in the destination account, the storage account has no
\* lamports and only zero bytes.
C19_Witness ==
    /\ call.disc = 2 /\ outcome.ok
    /\ Len(outcome.trace) = 2
    /\ outcome.trace[1].cpi = "Transfer"
    /\ outcome.trace[1].amount # << >>
    /\ ledger.tokens[call.owner_base_acc].amount
         >= ToNat(outcome.trace[1].amount)
    /\ ledger.lamports[call.swap_acc] = 0
    /\ AllBytesZero(ledger.swap_data[call.swap_acc].st)

\* The position opened at storage address k has been closed and no new one
\* has been opened there since.
ClosedPosition(L, k) ==
    k \in SwapKeys /\ opens[k] >= 1 /\ ~IsRecord(L, k)

\* C20: a close on the storage account of a closed position fails in the
\* handler without any CPI and changes nothing: with NotOwner while the
\* zeroed data is still there, with InvalidAccountData once the runtime has
\* reclaimed the account.
C20_SecondCloseFails ==
    [][call'.disc = 2 /\ ClosedPosition(ledger, call'.swap_acc)
        => /\ ~outcome'.ok
           /\ outcome'.trace = << >>
           /\ ledger' = ledger
           /\ call'.n_accounts = 5 /\ call'.owner_acc \in call'.signers
                => outcome'.err
                     = (IF HasSwapStateLen(ledger, call'.swap_acc)
                        THEN "NotOwner" ELSE "InvalidAccountData")]_vars

\* The maker's close of its position was repeated with the same accounts
\* and signature, before the runtime reclaimed the zeroed storage account,
\* and was rejected with NotOwner.
C20_Witness ==
    /\ call.disc = 2 /\ outcome.err = "NotOwner"
    /\ call.n_accounts = 5
    /\ call.owner_acc = "maker" /\ call.owner_acc \in call.signers
    /\ ClosedPosition(ledger, call.swap_acc)
    /\ HasSwapStateLen(ledger, call.swap_acc)
    /\ AllBytesZero(ledger.swap_data[call.swap_acc].st)
    /\ ledger.tokens["makerB"].amount > 0

\* C21: in every state each live record has bonus_base and bonus_quote of
\* at most 100 * 10^9, that is 100 percent.
C21_BonusRatesWithinRange ==
    \A k \in SwapKeys :
        IsRecord(ledger, k)
            => /\ Leq(ledger.swap_data[k].st.bonus_base, Percent(100))
               /\ Leq(ledger.swap_data[k].st.bonus_quote, Percent(100))

\* The record a successful create c writes on ledger L.
RecordOf(L, c) ==
    LET native == L.tokens[c.quote_acc].mint = WSOL_MINT IN
    [uuid |-> c.uuid, price |-> c.price, bonus_base |-> c.bonus_base,
     bonus_quote |-> c.bonus_quote, bump_seed |-> c.bump_seed,
     owner |-> c.owner_acc, base |-> c.base_acc, quote_sol |-> native,
     quote |-> IF native THEN L.tokens[c.quote_acc].owner ELSE c.quote_acc]

\* C22: a successful create leaves at the storage address a record with the
\* payload's id, price, bonus rates and bump, the signing owner, the
\* supplied base account, the native flag set exactly when the quote
\* account's mint is the wrapped-native mint, and as quote reference the
\* quote account's address, or its owner when native; no token account
\* changes, and no other storage account.
C22_CreateWritesRecordOnly ==
    [][call'.disc = 0 /\ outcome'.ok
        => /\ call'.owner_acc \in call'.signers
           /\ IsRecord(ledger', call'.swap_acc)
           /\ ledger'.swap_data[call'.swap_acc].st = RecordOf(ledger, call')
           /\ ledger'.tokens = ledger.tokens
           /\ \A k \in SwapKeys \ {call'.swap_acc} :
                ledger'.swap_data[k] = ledger.swap_data[k]]_vars

\* A create with a wrapped-native quote account has succeeded: the record
\* is native and names the account's owner, not the account, as recipient,
\* and carries the bonus rates of the payload.
C22_Witness ==
    /\ call.disc = 0 /\ outcome.ok
    /\ IsRecord(ledger, call.swap_acc)
    /\ ledger.tokens[call.quote_acc].mint = WSOL_MINT
    /\ ledger.swap_data[call.swap_acc].st.quote_sol
    /\ ledger.swap_data[call.swap_acc].st.quote
         = ledger.tokens[call.quote_acc].owner
    /\ ledger.swap_data[call.swap_acc].st.quote # call.quote_acc
    /\ ledger.swap_data[call.swap_acc].st.bonus_base = call.bonus_base
    /\ call.bonus_base # << >>

\* A create as test_initialize_swap sends it: opcode 0, a well-formed
\* payload with a price other than 0, the payer signing, six accounts, an
\* empty storage account at the address derived from the payload's id and
\* bump, and the same account as base and quote.
SentAsInTest(L, c) ==
    /\ c.disc = 0 /\ c.data_len_ok /\ c.n_accounts = 6
    /\ c.owner_acc \in c.signers
    /\ c.price # << >>
    /\ c.swap_acc = derive_address(c.uuid, c.bump_seed)
    /\ c.swap_acc \in SwapKeys /\ L.swap_data[c.swap_acc] = NoAccount
    /\ c.base_acc = c.quote_acc

\* C23: a create sent as test_initialize_swap sends it succeeds.
C23_TestCreateSucceeds ==
    [][SentAsInTest(ledger, call') => outcome'.ok]_vars

\* The number of accounts the instruction account list declares for each
\* instruction (mod.rs 39-66): Create 7, Swap 13, Close 5.
DeclaredAccounts(disc) ==
    IF disc = 0 THEN 7 ELSE IF disc = 1 THEN 13 ELSE 5

\* C24: a swap that supplies exactly the 13 declared accounts passes the
\* account-arity check of the handler, and an instruction with fewer
\* accounts than declared is rejected with NotEnoughAccountKeys before any
\* CPI.
C24_DeclaredAccountsPassArityCheck ==
    /\ call.disc = 1 /\ call.n_accounts = DeclaredAccounts(1)
         => outcome.err # "NotEnoughAccountKeys"
    /\ call.disc \in {1, 2} /\ call.n_accounts < DeclaredAccounts(call.disc)
         => outcome.err = "NotEnoughAccountKeys" /\ outcome.trace = << >>
    /\ call.disc = 0 /\ call.data_len_ok
           /\ call.n_accounts < DeclaredAccounts(0)
         => outcome.err = "NotEnoughAccountKeys" /\ outcome.trace = << >>

\* The close of the record at k that its owner signs, on the record's base
\* vault, with destination d.
OwnerClose(L, k, d) ==
    [disc |-> 2, n_accounts |-> 5,
     signers |-> {L.swap_data[k].st.owner},
     owner_acc |-> L.swap_data[k].st.owner, swap_acc |-> k,
     vault_base_acc |-> L.swap_data[k].st.base, owner_base_acc |-> d]

\* The token accounts of the vault's mint, other than the vault itself, the
\* owner of the record at k can name as destination.
Destinations(L, k) ==
    {d \in TokenKeys :
        /\ IsTokenAccount(L, d)
        /\ d # L.swap_data[k].st.base
        /\ L.tokens[d].mint = L.tokens[L.swap_data[k].st.base].mint}

\* C25: in every state with a live record, whatever opens and swaps came
\* before, the close its owner signs on the record's base vault with a
\* destination of the vault's mint succeeds and delivers the vault's whole
\* balance.
C25_OwnerCanAlwaysClose ==
    \A k \in SwapKeys :
        IsRecord(ledger, k)
            => /\ Destinations(ledger, k) # {}
               /\ \A d \in Destinations(ledger, k) :
                    LET o == close(ledger, OwnerClose(ledger, k, d))
                        vault == ledger.swap_data[k].st.base IN
                    /\ o.ok
                    /\ o.L.tokens[d].amount
                         = ledger.tokens[d].amount + ledger.tokens[vault].amount

\* A taker's swap has just failed on a position that an earlier swap had
\* partly filled; the record is live and the owner's close would go through.
C25_Witness ==
    /\ call.disc = 1 /\ ~outcome.ok /\ outcome.trace # << >>
    /\ IsRecord(ledger, call.swap_acc)
    /\ ledger.swap_data[call.swap_acc].st.base = "vaultB"
    /\ ledger.tokens["vaultB"].amount \in 1..(InitVaultBase - 1)
    /\ close(ledger, OwnerClose(ledger, call.swap_acc, "makerB")).ok

RECURSIVE SumOver(_, _)
\* The sum of f[k] over the keys k in S.
SumOver(f, S) ==
    IF S = {} THEN 0
    ELSE LET k == CHOOSE x \in S : TRUE IN f[k] + SumOver(f, S \ {k})

\* The amount of a mint held in all token accounts of ledger L together.
TotalTokens(L, mint) ==
    SumOver([k \in TokenKeys |->
                IF L.tokens[k].open /\ L.tokens[k].mint = mint
                THEN L.tokens[k].amount ELSE 0],
            TokenKeys)

\* The lamports (the native asset, wrapped or not) of all accounts together.
TotalLamports(L) == SumOver(L.lamports, AllKeys)

\* C26: after any sequence of instructions the base mint's total over all
\* token accounts is what it was at the start, so is the quote mint's total,
\* and so is the total of lamports for the native quote; and no amount and
\* no lamport balance is negative.
C26_AssetsConserved ==
    /\ TotalTokens(ledger, "mintB") = TotalTokens(InitLedger, "mintB")
    /\ TotalTokens(ledger, "mintQ") = TotalTokens(InitLedger, "mintQ")
    /\ TotalLamports(ledger) = TotalLamports(InitLedger)
    /\ \A k \in TokenKeys : ledger.tokens[k].amount >= 0
    /\ \A k \in AllKeys : ledger.lamports[k] >= 0

\* A position has been swapped against and then closed: the taker holds
\* base, the maker holds the rest of the base and the quote paid, and the
\* storage account and the vault hold nothing.
C26_Witness ==
    /\ call.disc = 2 /\ outcome.ok
    /\ ledger.tokens["takerB"].amount > 0
    /\ ledger.tokens[call.owner_base_acc].amount > 0
    /\ ledger.tokens["makerQ"].amount > 0
    /\ ledger.lamports[call.swap_acc] = 0
    /\ ledger.lamports[call.vault_base_acc] = 0

\* The token accounts under the authority of a storage address: the vaults.
Vaults(L) ==
    {v \in TokenKeys : L.tokens[v].open /\ L.tokens[v].owner \in SwapKeys}

\* Vault v holds less in M than in L, or is gone.
Withdrawn(L, M, v) ==
    ~M.tokens[v].open \/ M.tokens[v].amount < L.tokens[v].amount

\* C27: a vault's balance goes down only by a successful swap on the record
\* that names it, whose taker signed and was debited quote_in > 0 and whose
\* base legs were exactly base_out and the base bonus at the record's price,
\* or by a successful close that the record's owner signed.
C27_VaultPaysOnlySwapOrOwner ==
    [][\A v \in Vaults(ledger) :
         Withdrawn(ledger, ledger', v)
            => /\ outcome'.ok
               /\ call'.disc \in {1, 2}
               /\ HasSwapStateLen(ledger, call'.swap_acc)
               /\ LET st == ledger.swap_data[call'.swap_acc].st IN
                  /\ st.base = v /\ call'.vault_base_acc = v
                  /\ ledger.tokens[v].owner = call'.swap_acc
                  /\ call'.disc = 1
                       => /\ call'.user_acc \in call'.signers
                          /\ call'.quote_in # << >>
                          /\ QuoteSettled(ledger, ledger', st, call')
                          /\ BaseSettled(ledger, ledger', st, call')
                  /\ call'.disc = 2
                       => /\ call'.owner_acc \in call'.signers
                          /\ call'.owner_acc = st.owner]_vars

\* The first swap on a fresh position has succeeded: the vault holds its
\* initial balance less base_out and the base bonus, and the taker's quote
\* account its initial balance less quote_in.
C27_Witness ==
    /\ call.disc = 1 /\ outcome.ok
    /\ opens[call.swap_acc] = 1
    /\ call.vault_base_acc = "vaultB"
    /\ LET st == ledger.swap_data[call.swap_acc].st IN
       /\ ledger.tokens["vaultB"].amount
            = InitVaultBase - ToNat(BaseOutDue(st, call))
                - ToNat(BaseBonusDue(st, call))
       /\ ledger.tokens["vaultB"].amount < InitVaultBase
       /\ ledger.tokens[call.user_quote_acc].amount
            = InitTakerQuote - ToNat(call.quote_in)

\* C28: a swap on the storage account of a closed position fails in the
\* handler without any CPI and changes nothing, whichever vault it names,
\* until a create has written a new record at that address: on the zeroed
\* record a swap that gets as far as the vault comparisons stops at the
\* first with WrongVaultBase, and on the reclaimed account no swap gets past
\* the load of the record.
C28_NoSwapOnClosedPosition ==
    [][call'.disc = 1 /\ ClosedPosition(ledger, call'.swap_acc)
        => /\ ~outcome'.ok
           /\ outcome'.at = "handler"
           /\ outcome'.trace = << >>
           /\ ledger' = ledger
           /\ ReachesVaultChecks(ledger, call')
                => outcome'.err = "WrongVaultBase"
           /\ ~HasSwapStateLen(ledger, call'.swap_acc)
                => outcome'.err \in {"NotEnoughAccountKeys",
                                     "MissingRequiredSignature",
                                     "InvalidInstructionData",
                                     "InvalidAccountData"}]_vars

\* After the maker's close, and before the runtime reclaimed the zeroed
\* storage account, the taker sent a well-formed swap on it naming a vault
\* that is still open under the storage address: rejected at the comparison
\* of the vault with the record's (zeroed) base reference.
C28_Witness ==
    /\ call.disc = 1 /\ outcome.err = "WrongVaultBase"
    /\ ClosedPosition(ledger, call.swap_acc)
    /\ ReachesVaultChecks(ledger, call)
    /\ AllBytesZero(ledger.swap_data[call.swap_acc].st)
    /\ ledger.tokens[call.vault_base_acc].owner = call.swap_acc
    /\ ledger.tokens[call.vault_base_acc].amount > 0

\* A swap c that passes every check of the handler on ledger L but has a leg
\* its source cannot cover: the taker's quote account holds less than
\* quote_in, or the vault holds less than base_out plus the base bonus.
UncoveredLeg(L, c) ==
    /\ ReachesVaultChecks(L, c)
    /\ SwapRequirements(L, c)
    /\ LET st == L.swap_data[c.swap_acc].st IN
       /\ st.price # << >>
       /\ \/ Lt(N(L.tokens[c.user_quote_acc].amount), c.quote_in)
          \/ Lt(N(L.tokens[c.vault_base_acc].amount),
                Add(BaseOutDue(st, c), BaseBonusDue(st, c)))

\* An owner's close that passes every check of the handler on ledger L but
\* names the vault itself as the destination of its non-empty balance, so
\* that the vault cannot be closed after the transfer.
UnclosableVault(L, c) ==
    /\ c.disc = 2 /\ c.n_accounts = 5
    /\ CloseRequirements(L, c)
    /\ c.owner_base_acc = c.vault_base_acc
    /\ L.tokens[c.vault_base_acc].amount > 0

\* C5: whenever create, swap or close returns an error, the balances and
\* the records are those from before the instruction; and the handlers do
\* return the error of a leg that fails: a swap with a leg its source cannot
\* cover, also one that comes after legs already issued, and a close whose
\* vault cannot be closed, end in an error with nothing moved, never in
\* success with a part of the legs.
C5_ErrorLeavesLedgerUnchanged ==
    [][/\ ~outcome'.ok => ledger' = ledger
       /\ UncoveredLeg(ledger, call') \/ UnclosableVault(ledger, call')
            => /\ ~outcome'.ok
               /\ outcome'.err # "Ok"
               /\ ledger' = ledger
       /\ outcome'.ok /\ call'.disc \in {0, 1, 2}
            => /\ process_instruction(ledger, call').ok
               /\ ledger' = process_instruction(ledger, call').L]_vars

\* A swap that passed every check, whose quote leg was issued and whose base
\* leg then failed because the vault holds less than base_out; the taker
\* still holds the quote that the first leg had moved.
C5_Witness ==
    /\ call.disc = 1 /\ ~outcome.ok /\ outcome.at = "cpi"
    /\ outcome.err = "InsufficientFunds"
    /\ UncoveredLeg(ledger, call)
    /\ Len(outcome.trace) = 2
    /\ outcome.trace[1].from = call.user_quote_acc
    /\ outcome.trace[1].amount # << >>
    /\ outcome.trace[2].from = call.vault_base_acc
    /\ Lt(N(ledger.tokens[call.vault_base_acc].amount),
          outcome.trace[2].amount)
    /\ Leq(outcome.trace[1].amount,
           N(ledger.tokens[call.user_quote_acc].amount))

====
